---------------------------- MODULE Spec2Model ----------------------------
(***************************************************************************)
(* A model of weo/taco, a WAN emulator front end: the HTTP/1.1 codec       *)
(* (src/src/proto.rs, with the earlier codec of src/src/main.rs), the      *)
(* per-connection loop (src/src/main.rs) and the tc/netem control model    *)
(* and executor (src/src/netem.rs, with the earlier src/src/command.rs).   *)
(*                                                                         *)
(* A byte is a one-character string; the bytes that have no printable      *)
(* form are named: "SP" (0x20), "CR" (0x0D), "LF" (0x0A), "HT" (0x09) and  *)
(* "xFF" (0xFF, a byte no UTF-8 text contains).                            *)
(***************************************************************************)
EXTENDS Integers, Sequences, FiniteSets, TLC

(***************************************************************************)
(* Bounds                                                                  *)
(***************************************************************************)
\* the largest number of bytes one socket read delivers
MaxRead == 64

\* httparse's header array: [httparse::EMPTY_HEADER; 16]
MaxHeaders == 16

\* F applied to the value of v, which is computed once
Bind(v, F(_)) == CHOOSE out \in {F(x) : x \in {v}} : TRUE

(***************************************************************************)
(* Bytes                                                                   *)
(***************************************************************************)
Digits == <<"0", "1", "2", "3", "4", "5", "6", "7", "8", "9">>

IsDigit(c) == \E i \in 1..10 : Digits[i] = c

DigitVal(c) == (CHOOSE i \in 1..10 : Digits[i] = c) - 1

\* the bytes of the alphabet that are not HTTP token characters
NonToken == {"SP", "CR", "LF", "HT", "xFF", ":", "/", "{", "}", "[", "]", "\"", ","}

is_token(c) == c \notin NonToken

\* httparse's URI characters: visible ASCII
is_uri_token(c) == c \notin {"SP", "CR", "LF", "HT", "xFF"}

\* httparse's header value characters: visible ASCII, HT, SP and obs-text
is_header_value_token(c) == c \notin {"CR", "LF"}

\* a conversion that takes every byte for text (from_utf8_unchecked)
from_utf8_unchecked(bytes) == TRUE

\* str::from_utf8 over the alphabet: every byte but 0xFF is ASCII
from_utf8_ok(bytes) == \A i \in 1..Len(bytes) : bytes[i] # "xFF"

\* header names compare without case (http::HeaderName is lower case)
LowerByte(c) ==
  CASE c = "C" -> "c"
    [] c = "L" -> "l"
    [] c = "H" -> "h"
    [] c = "T" -> "t"
    [] OTHER -> c

Lower(bytes) == [i \in 1..Len(bytes) |-> LowerByte(bytes[i])]

CONTENT_LENGTH == <<"c", "o", "n", "t", "e", "n", "t", "-", "l", "e", "n", "g", "t", "h">>

(***************************************************************************)
(* httparse::Request::parse, as decode calls it: the positions are 1-based *)
(* indexes into the buffer; a result is Partial, Error or Complete.        *)
(***************************************************************************)
Partial == [st |-> "Partial"]

ParseError == [st |-> "Error"]

RECURSIVE skip_empty_lines(_, _)
skip_empty_lines(b, p) ==
  IF p > Len(b) THEN Partial
  ELSE IF b[p] = "CR"
    THEN IF p + 1 > Len(b) THEN Partial
         ELSE IF b[p + 1] = "LF" THEN skip_empty_lines(b, p + 2) ELSE ParseError
  ELSE IF b[p] = "LF" THEN skip_empty_lines(b, p + 1)
  ELSE [st |-> "Complete", pos |-> p]

\* the method: token bytes up to the first space
RECURSIVE parse_token(_, _, _)
parse_token(b, start, p) ==
  IF p > Len(b) THEN Partial
  ELSE IF b[p] = "SP" THEN [st |-> "Complete", from |-> start, to |-> p - 1, pos |-> p + 1]
  ELSE IF ~is_token(b[p]) THEN ParseError
  ELSE parse_token(b, start, p + 1)

\* the request target: URI bytes up to the first space
RECURSIVE parse_uri(_, _, _)
parse_uri(b, start, p) ==
  IF p > Len(b) THEN Partial
  ELSE IF b[p] = "SP" THEN [st |-> "Complete", from |-> start, to |-> p - 1, pos |-> p + 1]
  ELSE IF ~is_uri_token(b[p]) THEN ParseError
  ELSE parse_uri(b, start, p + 1)

HTTP_1_ == <<"H", "T", "T", "P", "/", "1", ".">>

parse_version(b, p) ==
  IF p + 7 <= Len(b)
  THEN IF \A i \in 1..7 : b[p + i - 1] = HTTP_1_[i]
       THEN IF b[p + 7] = "0" THEN [st |-> "Complete", version |-> 0, pos |-> p + 8]
            ELSE IF b[p + 7] = "1" THEN [st |-> "Complete", version |-> 1, pos |-> p + 8]
            ELSE ParseError
       ELSE ParseError
  ELSE IF \A i \in 1..7 : (p + i - 1 <= Len(b)) => b[p + i - 1] = HTTP_1_[i]
       THEN Partial
       ELSE ParseError

newline(b, p) ==
  IF p > Len(b) THEN Partial
  ELSE IF b[p] = "CR"
    THEN IF p + 1 > Len(b) THEN Partial
         ELSE IF b[p + 1] = "LF" THEN [st |-> "Complete", pos |-> p + 2] ELSE ParseError
  ELSE IF b[p] = "LF" THEN [st |-> "Complete", pos |-> p + 1]
  ELSE ParseError

RECURSIVE parse_header_name(_, _, _)
parse_header_name(b, start, p) ==
  IF p > Len(b) THEN Partial
  ELSE IF b[p] = ":" /\ p > start
    THEN [st |-> "Complete", from |-> start, to |-> p - 1, pos |-> p + 1]
  ELSE IF ~is_token(b[p]) THEN ParseError
  ELSE parse_header_name(b, start, p + 1)

RECURSIVE skip_spaces(_, _)
skip_spaces(b, p) ==
  IF p > Len(b) THEN Partial
  ELSE IF b[p] \in {"SP", "HT"} THEN skip_spaces(b, p + 1)
  ELSE [st |-> "Complete", pos |-> p]

RECURSIVE parse_header_value(_, _, _)
parse_header_value(b, start, p) ==
  IF p > Len(b) THEN Partial
  ELSE IF b[p] = "CR"
    THEN IF p + 1 > Len(b) THEN Partial
         ELSE IF b[p + 1] = "LF"
           THEN [st |-> "Complete", from |-> start, to |-> p - 1, pos |-> p + 2]
           ELSE ParseError
  ELSE IF b[p] = "LF" THEN [st |-> "Complete", from |-> start, to |-> p - 1, pos |-> p + 1]
  ELSE IF ~is_header_value_token(b[p]) THEN ParseError
  ELSE parse_header_value(b, start, p + 1)

\* the header lines up to the empty line; acc holds the (name, value) ranges
RECURSIVE parse_headers_iter(_, _, _)
parse_headers_iter(b, p, acc) ==
  IF p > Len(b) THEN Partial
  ELSE IF b[p] = "CR"
    THEN IF p + 1 > Len(b) THEN Partial
         ELSE IF b[p + 1] = "LF"
           THEN [st |-> "Complete", headers |-> acc, pos |-> p + 2]
           ELSE ParseError
  ELSE IF b[p] = "LF" THEN [st |-> "Complete", headers |-> acc, pos |-> p + 1]
  ELSE IF Len(acc) = MaxHeaders THEN ParseError
  ELSE Bind(parse_header_name(b, p, p), LAMBDA n :
    IF n.st # "Complete" THEN n
    ELSE Bind(skip_spaces(b, n.pos), LAMBDA s :
      IF s.st # "Complete" THEN s
      ELSE Bind(parse_header_value(b, s.pos, s.pos), LAMBDA v :
        IF v.st # "Complete" THEN v
        ELSE Bind(Append(acc, [k |-> <<n.from, n.to>>, v |-> <<v.from, v.to>>]),
               LAMBDA acc1 : parse_headers_iter(b, v.pos, acc1)))))

\* Status::Complete(amt) carries the number of bytes of the header block
httparse_parse(b) ==
  Bind(skip_empty_lines(b, 1), LAMBDA e :
    IF e.st # "Complete" THEN e
    ELSE Bind(parse_token(b, e.pos, e.pos), LAMBDA m :
      IF m.st # "Complete" THEN m
      ELSE Bind(parse_uri(b, m.pos, m.pos), LAMBDA u :
        IF u.st # "Complete" THEN u
        ELSE Bind(parse_version(b, u.pos), LAMBDA ver :
          IF ver.st # "Complete" THEN ver
          ELSE Bind(newline(b, ver.pos), LAMBDA nl :
            IF nl.st # "Complete" THEN nl
            ELSE Bind(parse_headers_iter(b, nl.pos, <<>>), LAMBDA h :
              IF h.st # "Complete" THEN h
              ELSE [st |-> "Complete", amt |-> h.pos - 1,
                    method |-> <<m.from, m.to>>, path |-> <<u.from, u.to>>,
                    version |-> ver.version, headers |-> h.headers]))))))

(***************************************************************************)
(* Http::decode                                                            *)
(***************************************************************************)
NoRequest == [method |-> <<>>, uri |-> <<>>, headers |-> <<>>, body |-> <<>>]

\* data[range.0..range.1]
slice(data, range) == SubSeq(data, range[1], range[2])

\* a split that leaves nothing in the buffer
split_to_end(src, at) == [head |-> SubSeq(src, 1, at), rest |-> <<>>]

\* BytesMut::split_to(at): the first `at` bytes, and what stays in the buffer
split_to(src, at) == [head |-> SubSeq(src, 1, at), rest |-> SubSeq(src, at + 1, Len(src))]

\* HeaderMap::get: the first header of that name, or none
header_get(headers, name) ==
  Bind({i \in 1..Len(headers) : Lower(headers[i].name) = name}, LAMBDA found :
    IF found = {} THEN [present |-> FALSE, value |-> <<>>]
    ELSE [present |-> TRUE,
          value |-> headers[CHOOSE i \in found : \A j \in found : i <= j].value])

\* length.to_str()?.parse::<usize>()?: a non-empty run of decimal digits
parse_usize_ok(bytes) == Len(bytes) > 0 /\ \A i \in 1..Len(bytes) : IsDigit(bytes[i])

RECURSIVE parse_digits(_, _)
parse_digits(bytes, n) ==
  IF n = 0 THEN 0 ELSE 10 * parse_digits(bytes, n - 1) + DigitVal(bytes[n])

parse_usize(bytes) == parse_digits(bytes, Len(bytes))

\* the request the builder holds once the header block has been split off
build_request(data, r) ==
  [method |-> slice(data, r.method),
   uri |-> slice(data, r.path),
   headers |-> [i \in 1..Len(r.headers) |->
                  [name |-> slice(data, r.headers[i].k),
                   value |-> slice(data, r.headers[i].v)]],
   body |-> <<>>]

\* a result of decode: res is "Some" (a request), "None" (no value yet), "Err"
\* (a fatal error) or "Panic"; src is the buffer the call leaves; amt is the
\* length of the header block it parsed and need the declared body length
DecodeResult(res, src, req, amt, need) ==
  [res |-> res, src |-> src, req |-> req, amt |-> amt, need |-> need]

\* the comparison with >= for >
body_missing_strict(body_len, buffered) == body_len >= buffered

\* if body_len > src.len() { return Ok(None); }
body_missing(body_len, buffered) == body_len > buffered

\* a decoder without the version check
version_unchecked(version) == FALSE

\* if version != 1 { return Err(..) }
version_rejected(version) == version # 1

\* a decoder that clears the buffer when the header block is incomplete
on_partial_clear(src) == [res |-> "None", src |-> <<>>, req |-> NoRequest, amt |-> 0, need |-> 0]

\* httparse::Status::Partial => return Ok(None): nothing is taken off the buffer
on_partial(src) == DecodeResult("None", src, NoRequest, 0, 0)

\* the body of a request whose header block (amt bytes) has been split off:
\* proto.rs returns no value when it is not all there, main.rs splits unchecked
\* and BytesMut::split_to panics on a buffer shorter than body_len
decode_body(rest, req, amt, checked) ==
  Bind(header_get(req.headers, CONTENT_LENGTH), LAMBDA length :
    IF ~length.present THEN DecodeResult("Some", rest, req, amt, 0)
    ELSE IF ~from_utf8_ok(length.value) \/ ~parse_usize_ok(length.value)
      THEN DecodeResult("Err", rest, NoRequest, amt, 0)
    ELSE Bind(parse_usize(length.value), LAMBDA body_len :
      IF checked /\ body_missing(body_len, Len(rest))
      THEN DecodeResult("None", rest, NoRequest, amt, body_len)
      ELSE IF body_len > Len(rest)
      THEN DecodeResult("Panic", rest, NoRequest, amt, body_len)
      ELSE Bind(split_to(rest, body_len), LAMBDA b :
        IF from_utf8_ok(b.head)
        THEN DecodeResult("Some", b.rest, [req EXCEPT !.body = b.head], amt, body_len)
        ELSE DecodeResult("Err", b.rest, NoRequest, amt, body_len))))

\* the header block: parsed, its version checked, then split off the buffer
decode_with(src, checked) ==
  Bind(httparse_parse(src), LAMBDA r :
    IF r.st = "Error" THEN DecodeResult("Err", src, NoRequest, 0, 0)
    ELSE IF r.st = "Partial" THEN on_partial(src)
    ELSE IF version_rejected(r.version) THEN DecodeResult("Err", src, NoRequest, r.amt, 0)
    ELSE Bind(split_to(src, r.amt), LAMBDA s :
      Bind(build_request(s.head, r), LAMBDA req :
        decode_body(s.rest, req, r.amt, checked))))

\* src/src/proto.rs: the codec in use
decode(src) == decode_with(src, TRUE)

\* src/src/main.rs: the earlier codec
decode_main(src) == decode_with(src, FALSE)

\* Decoder::decode_eof, the default method: what is left at end of stream is
\* decoded once more, and bytes that make no frame are an error
decode_eof(d) ==
  IF d.res = "None" /\ Len(d.src) > 0 THEN [d EXCEPT !.res = "Err"] ELSE d

(***************************************************************************)
(* What a peer sends on the connection                                     *)
(***************************************************************************)
CRLF == <<"CR", "LF">>

GET == <<"G", "E", "T">>

POST == <<"P", "O", "S", "T">>

HTTP_1_1 == <<"H", "T", "T", "P", "/", "1", ".", "1">>

HTTP_1_0 == <<"H", "T", "T", "P", "/", "1", ".", "0">>

HTTP_2_0 == <<"H", "T", "T", "P", "/", "2", ".", "0">>

Root == <<"/">>

Api == <<"/", "a", "p", "i">>

ContentLengthName == <<"C", "o", "n", "t", "e", "n", "t", "-", "L", "e", "n", "g", "t", "h">>

HostHeader == <<"H", "o", "s", "t", ":", "SP", "a">> \o CRLF

ContentLengthHeader(n) == ContentLengthName \o <<":", "SP", Digits[n + 1]>> \o CRLF

RequestBytes(method, path, version, headers, body) ==
  method \o <<"SP">> \o path \o <<"SP">> \o version \o CRLF \o headers \o CRLF \o body

\* the byte streams a peer may send; the bodies are an empty JSON array, an
\* empty JSON object, plain letters, and bytes that are not UTF-8
Scripts ==
  { RequestBytes(GET, Root, HTTP_1_1, <<>>, <<>>),
    RequestBytes(GET, Root, HTTP_1_1, HostHeader, <<>>),
    RequestBytes(POST, Api, HTTP_1_1, ContentLengthHeader(2), <<"[", "]">>),
    RequestBytes(POST, Api, HTTP_1_1, ContentLengthHeader(2), <<"{", "}">>),
    RequestBytes(POST, Api, HTTP_1_1, HostHeader \o ContentLengthHeader(2), <<"a", "b">>),
    RequestBytes(POST, Api, HTTP_1_1, ContentLengthHeader(0), <<>>),
    RequestBytes(POST, Api, HTTP_1_1, ContentLengthHeader(2), <<"a", "xFF">>),
    RequestBytes(POST, Api, HTTP_1_0, ContentLengthHeader(2), <<"[", "]">>),
    RequestBytes(GET, Root, HTTP_1_0, HostHeader, <<>>),
    RequestBytes(GET, Root, HTTP_2_0, <<>>, <<>>),
    RequestBytes(POST, Api, HTTP_1_1, ContentLengthHeader(2), <<"[", "]">>)
      \o RequestBytes(GET, Root, HTTP_1_1, <<>>, <<>>),
    RequestBytes(GET, Root, HTTP_1_1, <<>>, <<>>)
      \o RequestBytes(POST, Api, HTTP_1_1, ContentLengthHeader(2), <<"[", "]">>),
    RequestBytes(POST, Root, HTTP_1_1, <<>>, <<>>),
    RequestBytes(GET, Api, HTTP_1_1, <<>>, <<>>) }

(***************************************************************************)
(* The control model (src/src/netem.rs).  An Option is a sequence of at    *)
(* most one value; a Percentage or Millisecond (f64) is a decimal          *)
(* Dec(m, k) = m / 10^k, so that Dec(10, 0) is 10.0 and Dec(1, 1) is 0.1;  *)
(* a u64 is a decimal numeral, a sequence of digits.                       *)
(***************************************************************************)
None == <<>>

Some(v) == <<v>>

is_some(o) == Len(o) = 1

RECURSIVE Pow10(_)
Pow10(k) == IF k = 0 THEN 1 ELSE 10 * Pow10(k - 1)

\* an f64 that is a short decimal: m / 10^k, with k the least possible
Dec(m, k) == [m |-> m, k |-> k]

\* the k low decimal digits of n
RECURSIVE pad_digits(_, _)
pad_digits(n, k) == IF k = 0 THEN "" ELSE pad_digits(n \div 10, k - 1) \o ToString(n % 10)

\* format!("{}", f64): the shortest decimal that reads back as the value
fmt_f64(t) ==
  IF t.k = 0 THEN ToString(t.m)
  ELSE ToString(t.m \div Pow10(t.k)) \o "." \o pad_digits(t.m % Pow10(t.k), t.k)

to_pct_string(t) == fmt_f64(t) \o "%"

to_ms_string(t) == fmt_f64(t) \o "ms"

Limit_to_args(limit) == <<"limit", ToString(limit.packets)>>

Delay_to_args(delay) ==
  <<"delay", to_ms_string(delay.time)>>
  \o (IF is_some(delay.jitter)
      THEN <<to_ms_string(delay.jitter[1])>>
           \o (IF is_some(delay.correlation)
               THEN <<to_pct_string(delay.correlation[1])>>
               ELSE <<>>)
      ELSE <<>>)
  \o (IF is_some(delay.distribution)
      THEN <<"distribution", delay.distribution[1]>>
      ELSE <<>>)

Loss_to_args(loss) ==
  <<"loss", "random", to_pct_string(loss.percent)>>
  \o (IF is_some(loss.correlation) THEN <<to_pct_string(loss.correlation[1])>> ELSE <<>>)
  \o (IF loss.ecn THEN <<"ecn">> ELSE <<>>)

Corrupt_to_args(corrupt) ==
  <<"corrupt", to_pct_string(corrupt.percent)>>
  \o (IF is_some(corrupt.correlation)
      THEN <<to_pct_string(corrupt.correlation[1])>>
      ELSE <<>>)

Duplicate_to_args(duplicate) ==
  <<"duplicate", to_pct_string(duplicate.percent)>>
  \o (IF is_some(duplicate.correlation)
      THEN <<to_pct_string(duplicate.correlation[1])>>
      ELSE <<>>)

Reorder_to_args(reorder) ==
  <<"reorder", to_pct_string(reorder.percent)>>
  \o (IF is_some(reorder.correlation)
      THEN <<to_pct_string(reorder.correlation[1])>>
      ELSE <<>>)
  \o (IF is_some(reorder.distance) THEN <<"gap", ToString(reorder.distance[1])>> ELSE <<>>)

\* format!("{}", u64) of a numeral
RECURSIVE Str(_)
Str(chars) == IF Len(chars) = 0 THEN "" ELSE Head(chars) \o Str(Tail(chars))

Rate_to_args(rate) == <<"rate", Str(rate.rate) \o "bit">>

\* the reorder tokens without the check of delay, as src/src/command.rs has them
reorder_group_unguarded(controls) ==
  IF is_some(controls.reorder) THEN Reorder_to_args(controls.reorder[1]) ELSE <<>>

\* the reorder tokens: to use reordering, a delay option must be specified
reorder_group(controls) ==
  IF is_some(controls.delay) /\ is_some(controls.reorder)
  THEN Reorder_to_args(controls.reorder[1])
  ELSE <<>>

Controls_to_args(controls) ==
  (IF is_some(controls.limit) THEN Limit_to_args(controls.limit[1]) ELSE <<>>)
  \o (IF is_some(controls.delay) THEN Delay_to_args(controls.delay[1]) ELSE <<>>)
  \o (IF is_some(controls.loss) THEN Loss_to_args(controls.loss[1]) ELSE <<>>)
  \o (IF is_some(controls.duplicate) THEN Duplicate_to_args(controls.duplicate[1]) ELSE <<>>)
  \o reorder_group(controls)
  \o (IF is_some(controls.corrupt) THEN Corrupt_to_args(controls.corrupt[1]) ELSE <<>>)
  \o (IF is_some(controls.rate) THEN Rate_to_args(controls.rate[1]) ELSE <<>>)

Controls_default ==
  [limit |-> None, delay |-> None, loss |-> None, corrupt |-> None,
   duplicate |-> None, reorder |-> None, rate |-> None]

\* the operations: NetEm::Set, Show, List and Reset
Set(interface, controls) == [type |-> "set", interface |-> interface, controls |-> controls]

Show(interface) == [type |-> "show", interface |-> interface, controls |-> Controls_default]

List == [type |-> "list", interface |-> "", controls |-> Controls_default]

Reset(interface) == [type |-> "reset", interface |-> interface, controls |-> Controls_default]

\* the head of the argument list with the interface before "dev"
set_template_swapped(interface) == <<"qdisc", "replace", interface, "dev", "root", "netem">>

\* the head of the argument list of Set and of Reset
set_template(interface) == <<"qdisc", "replace", "dev", interface, "root", "netem">>

reset_template(interface) == <<"qdisc", "del", "dev", interface, "root", "netem">>

NetEm_to_args(op) ==
  CASE op.type = "set" -> set_template(op.interface) \o Controls_to_args(op.controls)
    [] op.type = "show" -> <<"qdisc", "show", "dev", op.interface>>
    [] op.type = "reset" -> reset_template(op.interface)
    [] op.type = "list" -> <<"qdisc", "show">>

(***************************************************************************)
(* Parsing the status text of tc (src/src/netem.rs): each FromStr applies  *)
(* its regular expression, which is searched for from the left; a text is  *)
(* a sequence of characters.                                               *)
(***************************************************************************)
DigitChars == {"0", "1", "2", "3", "4", "5", "6", "7", "8", "9"}

\* [\d\.]
NumChars == DigitChars \cup {"."}

\* [-\d]
LimitChars == DigitChars \cup {"-"}

\* \s
IsSpace(c) == c \in {"SP", "HT", "LF", "CR"}

\* the literal w stands at position i of t
lit(t, i, w) ==
  /\ i >= 1
  /\ i + Len(w) - 1 <= Len(t)
  /\ \A k \in 1..Len(w) : t[i + k - 1] = w[k]

\* the last position of the longest run of class characters from i (i - 1: none)
RECURSIVE run_end(_, _, _)
run_end(t, i, class) ==
  IF i <= Len(t) /\ t[i] \in class THEN run_end(t, i + 1, class) ELSE i - 1

NoField == [ok |-> FALSE, text |-> <<>>, next |-> 0]

\* class+ followed by the literal w, at position i
field(t, i, class, w) ==
  Bind(run_end(t, i, class), LAMBDA e :
    IF e >= i /\ lit(t, e + 1, w)
    THEN [ok |-> TRUE, text |-> SubSeq(t, i, e), next |-> e + 1 + Len(w)]
    ELSE NoField)

\* keyword \s class+ w, at position i
keyword_field(t, i, kw, class, w) ==
  IF lit(t, i, kw) /\ i + Len(kw) <= Len(t) /\ IsSpace(t[i + Len(kw)])
  THEN field(t, i + Len(kw) + 1, class, w)
  ELSE NoField

\* Regex::captures: the leftmost position where the expression matches
find(t, kw, class, w) ==
  Bind({i \in 1..Len(t) : keyword_field(t, i, kw, class, w).ok}, LAMBDA hits :
    IF hits = {} THEN NoField
    ELSE keyword_field(t, CHOOSE i \in hits : \A j \in hits : i <= j, kw, class, w))

\* (\s(?P<correlation>[\d\.]+)%)? at position i
opt_pct(t, i) ==
  IF i <= Len(t) /\ IsSpace(t[i]) THEN field(t, i + 1, NumChars, <<"%">>) ELSE NoField

\* the end of the line that position i is on: `.` matches no line feed
RECURSIVE line_end(_, _)
line_end(t, i) == IF i <= Len(t) /\ t[i] # "LF" THEN line_end(t, i + 1) ELSE i - 1

\* the digits of a numeral without its leading zeros
RECURSIVE strip_zeros(_)
strip_zeros(d) == IF Len(d) > 1 /\ Head(d) = "0" THEN strip_zeros(Tail(d)) ELSE d

\* the digits of a fraction without its trailing zeros
RECURSIVE strip_trailing(_)
strip_trailing(d) ==
  IF Len(d) > 0 /\ d[Len(d)] = "0" THEN strip_trailing(SubSeq(d, 1, Len(d) - 1)) ELSE d

\* numerals compare by length, then digit by digit
RECURSIVE numeral_gt(_, _)
numeral_gt(a, b) ==
  IF Len(a) # Len(b) THEN Len(a) > Len(b)
  ELSE IF Len(a) = 0 THEN FALSE
  ELSE IF Head(a) # Head(b) THEN DigitVal(Head(a)) > DigitVal(Head(b))
  ELSE numeral_gt(Tail(a), Tail(b))

I32_MAX == <<"2", "1", "4", "7", "4", "8", "3", "6", "4", "7">>

U32_MAX == <<"4", "2", "9", "4", "9", "6", "7", "2", "9", "5">>

U64_MAX ==
  <<"1", "8", "4", "4", "6", "7", "4", "4", "0", "7", "3", "7", "0", "9", "5", "5", "1",
    "6", "1", "5">>

ParseErr == [ok |-> FALSE, val |-> 0]

\* str::parse::<f64> of a text of digits and dots: at most one dot, and a digit
parse_f64(text) ==
  Bind({i \in 1..Len(text) : text[i] = "."}, LAMBDA dots :
    IF Cardinality(dots) > 1 \/ Len(text) - Cardinality(dots) = 0 THEN ParseErr
    ELSE Bind(IF dots = {} THEN Len(text) + 1 ELSE CHOOSE i \in dots : TRUE, LAMBDA dot :
      Bind(strip_trailing(SubSeq(text, dot + 1, Len(text))), LAMBDA frac :
        [ok |-> TRUE,
         val |-> Dec(parse_digits(text, dot - 1) * Pow10(Len(frac))
                       + parse_digits(frac, Len(frac)),
                     Len(frac))])))

\* str::parse::<u32> of a text of digits
parse_u32(text) ==
  IF Len(text) = 0 \/ numeral_gt(strip_zeros(text), U32_MAX) THEN ParseErr
  ELSE [ok |-> TRUE, val |-> parse_digits(text, Len(text))]

I32_MIN_ABS == <<"2", "1", "4", "7", "4", "8", "3", "6", "4", "8">>

\* the negative of the number the first n digits spell
RECURSIVE parse_digits_neg(_, _)
parse_digits_neg(digits, n) ==
  IF n = 0 THEN 0 ELSE 10 * parse_digits_neg(digits, n - 1) - DigitVal(digits[n])

\* str::parse::<i32> of a text of digits and minus signs: a sign, then digits
parse_i32(text) ==
  IF Len(text) > 0 /\ Head(text) = "-"
  THEN Bind(Tail(text), LAMBDA digits :
         IF Len(digits) = 0 \/ (\E i \in 1..Len(digits) : digits[i] = "-")
            \/ numeral_gt(strip_zeros(digits), I32_MIN_ABS)
         THEN ParseErr
         ELSE [ok |-> TRUE, val |-> parse_digits_neg(digits, Len(digits))])
  ELSE IF Len(text) = 0 \/ (\E i \in 1..Len(text) : text[i] = "-")
          \/ numeral_gt(strip_zeros(text), I32_MAX)
  THEN ParseErr
  ELSE [ok |-> TRUE, val |-> parse_digits(text, Len(text))]

\* str::parse::<u64> of a text of digits and dots, as a numeral
parse_u64(text) ==
  IF Len(text) = 0 \/ (\E i \in 1..Len(text) : text[i] = ".")
     \/ numeral_gt(strip_zeros(text), U64_MAX)
  THEN [ok |-> FALSE, val |-> <<>>]
  ELSE [ok |-> TRUE, val |-> strip_zeros(text)]

\* Option<f64> of an optional capture: s.as_str().parse().ok()
opt_f64(f) ==
  IF f.ok /\ parse_f64(f.text).ok THEN Some(parse_f64(f.text).val) ELSE None

KwLimit == <<"l", "i", "m", "i", "t">>

KwDelay == <<"d", "e", "l", "a", "y">>

KwLoss == <<"l", "o", "s", "s">>

KwCorrupt == <<"c", "o", "r", "r", "u", "p", "t">>

KwDuplicate == <<"d", "u", "p", "l", "i", "c", "a", "t", "e">>

KwReorder == <<"r", "e", "o", "r", "d", "e", "r">>

KwRate == <<"r", "a", "t", "e">>

KwEcn == <<"e", "c", "n">>

KwGap == <<"g", "a", "p">>

KwMs == <<"m", "s">>

KwBit == <<"b", "i", "t">>

QdiscNetem == <<"q", "d", "i", "s", "c", "SP", "n", "e", "t", "e", "m">>

\* limit\s(?P<packets>[-\d]+)
Limit_from_str(s) ==
  Bind(find(s, KwLimit, LimitChars, <<>>), LAMBDA f :
    IF f.ok /\ parse_i32(f.text).ok
    THEN Some([packets |-> parse_i32(f.text).val])
    ELSE None)

\* (\s{2}(?P<jitter>[\d\.]+)ms\s((?P<correlation>[\d\.]+)%)?)? at position i
delay_jitter(s, i) ==
  IF i + 1 <= Len(s) /\ IsSpace(s[i]) /\ IsSpace(s[i + 1])
  THEN Bind(field(s, i + 2, NumChars, KwMs), LAMBDA j :
         IF j.ok /\ j.next <= Len(s) /\ IsSpace(s[j.next])
         THEN [jitter |-> j, correlation |-> field(s, j.next + 1, NumChars, <<"%">>)]
         ELSE [jitter |-> NoField, correlation |-> NoField])
  ELSE [jitter |-> NoField, correlation |-> NoField]

\* delay\s(?P<time>[\d\.]+)ms(\s{2}(?P<jitter>[\d\.]+)ms\s((?P<correlation>[\d\.]+)%)?)?
Delay_from_str(s) ==
  Bind(find(s, KwDelay, NumChars, KwMs), LAMBDA f :
    IF ~f.ok \/ ~parse_f64(f.text).ok THEN None
    ELSE Bind(delay_jitter(s, f.next), LAMBDA g :
      Bind(opt_f64(g.jitter), LAMBDA jitter :
        Some([time |-> parse_f64(f.text).val,
              jitter |-> jitter,
              correlation |-> IF is_some(jitter) THEN opt_f64(g.correlation) ELSE None,
              distribution |-> None]))))

\* (.*\s(?P<ecn>ecn))? from position i: the flag anywhere on the rest of the line
has_ecn(s, i) ==
  \E j \in i..line_end(s, i) + 1 : j <= Len(s) /\ IsSpace(s[j]) /\ lit(s, j + 1, KwEcn)

\* loss\s(?P<percent>[\d\.]+)%(\s(?P<correlation>[\d\.]+)%)?(.*\s(?P<ecn>ecn))?
Loss_from_str(s) ==
  Bind(find(s, KwLoss, NumChars, <<"%">>), LAMBDA f :
    IF ~f.ok \/ ~parse_f64(f.text).ok THEN None
    ELSE Bind(opt_pct(s, f.next), LAMBDA c :
      Some([percent |-> parse_f64(f.text).val,
            correlation |-> opt_f64(c),
            ecn |-> has_ecn(s, IF c.ok THEN c.next ELSE f.next)])))

\* corrupt\s(?P<percent>[\d\.]+)%(\s(?P<correlation>[\d\.]+)%)?
Corrupt_from_str(s) ==
  Bind(find(s, KwCorrupt, NumChars, <<"%">>), LAMBDA f :
    IF ~f.ok \/ ~parse_f64(f.text).ok THEN None
    ELSE Some([percent |-> parse_f64(f.text).val,
               correlation |-> opt_f64(opt_pct(s, f.next))]))

\* duplicate\s(?P<percent>[\d\.]+)%(\s(?P<correlation>[\d\.]+)%)?
Duplicate_from_str(s) ==
  Bind(find(s, KwDuplicate, NumChars, <<"%">>), LAMBDA f :
    IF ~f.ok \/ ~parse_f64(f.text).ok THEN None
    ELSE Some([percent |-> parse_f64(f.text).val,
               correlation |-> opt_f64(opt_pct(s, f.next))]))

\* (.*\sgap\s(?P<distance>[\d]+))? from position i: `.*` is greedy, so the last
\* gap on the rest of the line is the one captured
gap_distance(s, i) ==
  Bind({j \in i..line_end(s, i) + 1 : j <= Len(s) /\ IsSpace(s[j])
          /\ keyword_field(s, j + 1, KwGap, DigitChars, <<>>).ok}, LAMBDA hits :
    IF hits = {} THEN NoField
    ELSE keyword_field(s, (CHOOSE j \in hits : \A h \in hits : h <= j) + 1, KwGap,
                       DigitChars, <<>>))

\* reorder\s(?P<percent>[\d\.]+)%(\s(?P<correlation>[\d\.]+)%)?(.*\sgap\s(?P<distance>[\d]+))?
Reorder_from_str(s) ==
  Bind(find(s, KwReorder, NumChars, <<"%">>), LAMBDA f :
    IF ~f.ok \/ ~parse_f64(f.text).ok THEN None
    ELSE Bind(opt_pct(s, f.next), LAMBDA c :
      Bind(gap_distance(s, IF c.ok THEN c.next ELSE f.next), LAMBDA g :
        Some([percent |-> parse_f64(f.text).val,
              correlation |-> opt_f64(c),
              distance |-> IF g.ok /\ parse_u32(g.text).ok
                           THEN Some(parse_u32(g.text).val)
                           ELSE None]))))

\* a unit whose prefix is read but not applied
rate_unit_plain(s, i) ==
  [ok |-> lit(s, i, KwBit)
            \/ (i <= Len(s) /\ s[i] \in {"K", "M", "G", "T"} /\ lit(s, i + 1, KwBit)),
   zeros |-> 0]

\* the unit of a rate: [KMGT]?bit at position i, as the number of zeros it appends
rate_unit(s, i) ==
  IF lit(s, i, KwBit) THEN [ok |-> TRUE, zeros |-> 0]
  ELSE IF i <= Len(s) /\ s[i] \in {"K", "M", "G", "T"} /\ lit(s, i + 1, KwBit)
    THEN [ok |-> TRUE,
          zeros |-> CASE s[i] = "K" -> 3 [] s[i] = "M" -> 6 [] s[i] = "G" -> 9 [] OTHER -> 12]
  ELSE [ok |-> FALSE, zeros |-> 0]

\* a product that is not checked against u64::max_value()
unchecked_mul_pow10(number, zeros) == strip_zeros(number \o [i \in 1..zeros |-> "0"])

\* number.checked_mul(10^zeros).unwrap_or(u64::max_value()), on numerals
checked_mul_pow10(number, zeros) ==
  Bind(strip_zeros(number \o [i \in 1..zeros |-> "0"]), LAMBDA product :
    IF numeral_gt(product, U64_MAX) THEN U64_MAX ELSE product)

\* rate\s(?P<number>[\d\.]+)(?P<unit>[KMGT]?bit)
Rate_from_str(s) ==
  Bind({i \in 1..Len(s) :
          /\ keyword_field(s, i, KwRate, NumChars, <<>>).ok
          /\ rate_unit(s, keyword_field(s, i, KwRate, NumChars, <<>>).next).ok}, LAMBDA hits :
    IF hits = {} THEN None
    ELSE Bind(keyword_field(s, CHOOSE i \in hits : \A j \in hits : i <= j, KwRate,
                            NumChars, <<>>), LAMBDA f :
      IF ~parse_u64(f.text).ok THEN None
      ELSE Some([rate |-> checked_mul_pow10(parse_u64(f.text).val,
                                            rate_unit(s, f.next).zeros)])))

\* a parse that gives up every field when the limit is not read
Controls_from_str_limit_first(s) ==
  IF ~lit(s, 1, QdiscNetem) \/ Limit_from_str(s) = None THEN Controls_default
  ELSE [limit |-> Limit_from_str(s),
        delay |-> Delay_from_str(s),
        loss |-> Loss_from_str(s),
        corrupt |-> Corrupt_from_str(s),
        duplicate |-> Duplicate_from_str(s),
        reorder |-> Reorder_from_str(s),
        rate |-> Rate_from_str(s)]

\* Controls::from_str never fails: a text that is not netem's gives the default
Controls_from_str(s) ==
  IF ~lit(s, 1, QdiscNetem) THEN Controls_default
  ELSE [limit |-> Limit_from_str(s),
        delay |-> Delay_from_str(s),
        loss |-> Loss_from_str(s),
        corrupt |-> Corrupt_from_str(s),
        duplicate |-> Duplicate_from_str(s),
        reorder |-> Reorder_from_str(s),
        rate |-> Rate_from_str(s)]

\* str::lines: the text split at line feeds, a final carriage return dropped
RECURSIVE lines(_)
lines(t) ==
  IF Len(t) = 0 THEN <<>>
  ELSE Bind(line_end(t, 1), LAMBDA e :
    Bind(IF e >= 1 /\ t[e] = "CR" THEN e - 1 ELSE e, LAMBDA last_char :
      <<SubSeq(t, 1, last_char)>> \o lines(SubSeq(t, e + 2, Len(t)))))

KwQdisc == <<"q", "d", "i", "s", "c">>

KwDev == <<"d", "e", "v">>

KwRoot == <<"r", "o", "o", "t">>

\* ^qdisc\s.*:\sdev\s(?P<interface>.*)\sroot on one line: both `.*` are greedy,
\* so the last ": dev " that a " root" follows and the last " root" delimit the name
interface_of(line) ==
  IF ~(lit(line, 1, KwQdisc) /\ Len(line) >= 6 /\ IsSpace(line[6])) THEN None
  ELSE Bind({b \in 1..Len(line) : IsSpace(line[b]) /\ lit(line, b + 1, KwRoot)}, LAMBDA roots :
    Bind({a \in 7..Len(line) :
            /\ line[a] = ":"
            /\ a + 5 <= Len(line)
            /\ IsSpace(line[a + 1])
            /\ lit(line, a + 2, KwDev)
            /\ IsSpace(line[a + 5])
            /\ \E b \in roots : b >= a + 6}, LAMBDA colons :
      IF colons = {} THEN None
      ELSE Some(SubSeq(line,
                       (CHOOSE a \in colons : \A c \in colons : c <= a) + 6,
                       (CHOOSE b \in roots : \A c \in roots : c <= b) - 1))))

\* a collection that stops after the first line
collect_interfaces_first(ls) == IF Len(ls) = 0 THEN <<>> ELSE interface_of(Head(ls))

\* map(captures), filter_map, map(name), filter_map, collect
RECURSIVE collect_interfaces(_)
collect_interfaces(ls) ==
  IF Len(ls) = 0 THEN <<>>
  ELSE interface_of(Head(ls)) \o collect_interfaces(Tail(ls))

output_to_interfaces(output) == collect_interfaces(lines(output))

(***************************************************************************)
(* The executor: NetEm::execute (src/src/netem.rs)                         *)
(***************************************************************************)
NoDescription == [format |-> "", code |-> None, text |-> None]

\* the Output value; the fields a variant does not have hold a default
Output_Ok ==
  [status |-> "ok", interface |-> "", controls |-> Controls_default, list |-> <<>>,
   description |-> NoDescription, server |-> FALSE]

Output_Controls(interface, controls) ==
  [status |-> "controls", interface |-> interface, controls |-> controls, list |-> <<>>,
   description |-> NoDescription, server |-> FALSE]

Output_Interfaces(list) ==
  [status |-> "interfaces", interface |-> "", controls |-> Controls_default, list |-> list,
   description |-> NoDescription, server |-> FALSE]

err_server(description) ==
  [status |-> "error", interface |-> "", controls |-> Controls_default, list |-> <<>>,
   description |-> description, server |-> TRUE]

err_client(description) ==
  [status |-> "error", interface |-> "", controls |-> Controls_default, list |-> <<>>,
   description |-> description, server |-> FALSE]

\* what running `tc` comes to: it could not be started, a signal ended it, or
\* it exited with a code, having written stdout and stderr
SpawnFailed(error) ==
  [kind |-> "spawn_failed", code |-> 0, stdout |-> <<>>, stderr |-> <<>>, error |-> error]

Signaled(stdout, stderr) ==
  [kind |-> "signaled", code |-> 0, stdout |-> stdout, stderr |-> stderr, error |-> <<>>]

Exited(code, stdout, stderr) ==
  [kind |-> "exited", code |-> code, stdout |-> stdout, stderr |-> stderr, error |-> <<>>]

\* a match that has Ok for every operation
on_success_plain(op, stdout) ==
  [status |-> "ok", interface |-> "", controls |-> Controls_default, list |-> <<>>,
   description |-> NoDescription, server |-> FALSE]

\* the result of a command that exited with code 0 and wrote text
on_success(op, stdout) ==
  CASE op.type = "show" -> Output_Controls(op.interface, Controls_from_str(stdout))
    [] op.type = "list" -> Output_Interfaces(output_to_interfaces(stdout))
    [] OTHER -> Output_Ok

\* a description that leaves stderr out, as src/src/command.rs has it
on_failure_without_stderr(code, stderr) ==
  [status |-> "error", interface |-> "", controls |-> Controls_default, list |-> <<>>,
   description |-> [format |-> "Exit with status code: {}", code |-> <<code>>,
                    text |-> <<>>],
   server |-> TRUE]

\* the result of a command that exited with another code
on_failure(code, stderr) ==
  IF from_utf8_ok(stderr)
  THEN err_server([format |-> "Exit with status code: {}, stderr: {}",
                   code |-> Some(code), text |-> Some(stderr)])
  ELSE err_server([format |-> "Exit with status code: {}", code |-> Some(code),
                   text |-> None])

\* the match on Command::new("tc").args(args).output().await
NetEm_execute(op, out) ==
  CASE out.kind = "spawn_failed" ->
         err_server([format |-> "Command error: {}", code |-> None,
                     text |-> Some(out.error)])
    [] out.kind = "signaled" ->
         err_server([format |-> "Process killed by signal", code |-> None, text |-> None])
    [] OTHER ->
         IF out.code = 0
         THEN IF from_utf8_ok(out.stdout)
              THEN on_success(op, out.stdout)
              ELSE err_server([format |-> "Process output decode(utf8) error: {}",
                               code |-> None, text |-> None])
         ELSE on_failure(out.code, out.stderr)

(***************************************************************************)
(* The earlier executor: Tc (src/src/command.rs).  Its Controls has five   *)
(* fields, its Millisecond is a u64, and get_args checks is_valid.         *)
(***************************************************************************)
Tc_Delay_to_args(delay) ==
  <<"delay", ToString(delay.duration) \o "ms">>
  \o (IF is_some(delay.jitter) THEN <<ToString(delay.jitter[1]) \o "ms">> ELSE <<>>)
  \o (IF is_some(delay.correlation) THEN <<to_pct_string(delay.correlation[1])>> ELSE <<>>)

Tc_Loss_to_args(loss) ==
  <<"loss", to_pct_string(loss.prob)>>
  \o (IF is_some(loss.random) THEN <<to_pct_string(loss.random[1])>> ELSE <<>>)

Tc_Corrupt_to_args(corrupt) ==
  <<"corrupt", to_pct_string(corrupt.prob)>>
  \o (IF is_some(corrupt.correlation)
      THEN <<to_pct_string(corrupt.correlation[1])>>
      ELSE <<>>)

Tc_Duplicate_to_args(duplicate) ==
  <<"duplicate", to_pct_string(duplicate.prob)>>
  \o (IF is_some(duplicate.correlation)
      THEN <<to_pct_string(duplicate.correlation[1])>>
      ELSE <<>>)

Tc_Reorder_to_args(reorder) ==
  <<"reorder", to_pct_string(reorder.prob)>>
  \o (IF is_some(reorder.correlation)
      THEN <<to_pct_string(reorder.correlation[1])>>
      ELSE <<>>)
  \o (IF is_some(reorder.gap) THEN <<"gap", ToString(reorder.gap[1])>> ELSE <<>>)

\* to use reordering, a delay option must be specified
is_valid(controls) == ~is_some(controls.reorder) \/ is_some(controls.delay)

Tc_Controls_to_args(controls) ==
  (IF is_some(controls.delay) THEN Tc_Delay_to_args(controls.delay[1]) ELSE <<>>)
  \o (IF is_some(controls.loss) THEN Tc_Loss_to_args(controls.loss[1]) ELSE <<>>)
  \o (IF is_some(controls.duplicate) THEN Tc_Duplicate_to_args(controls.duplicate[1]) ELSE <<>>)
  \o (IF is_some(controls.reorder) THEN Tc_Reorder_to_args(controls.reorder[1]) ELSE <<>>)
  \o (IF is_some(controls.corrupt) THEN Tc_Corrupt_to_args(controls.corrupt[1]) ELSE <<>>)

Tc_Controls_default ==
  [delay |-> None, loss |-> None, duplicate |-> None, reorder |-> None, corrupt |-> None]

\* Tc::Control, Show (of one interface, or of all) and Reset
Tc_Control(interface, controls) ==
  [type |-> "control", interface |-> Some(interface), controls |-> controls]

Tc_Show(interface) ==
  [type |-> "show", interface |-> interface, controls |-> Tc_Controls_default]

Tc_Reset(interface) ==
  [type |-> "reset", interface |-> Some(interface), controls |-> Tc_Controls_default]

\* Tc::get_args: Err for a Controls that is not valid
Tc_get_args(op) ==
  CASE op.type = "control" ->
         IF ~is_valid(op.controls) THEN [ok |-> FALSE, args |-> <<>>]
         ELSE [ok |-> TRUE,
               args |-> <<"qdisc", "replace", "dev", op.interface[1], "root", "netem">>
                        \o Tc_Controls_to_args(op.controls)]
    [] op.type = "show" ->
         IF is_some(op.interface)
         THEN [ok |-> TRUE, args |-> <<"qdisc", "show", "dev", op.interface[1]>>]
         ELSE [ok |-> TRUE, args |-> <<"qdisc", "show">>]
    [] OTHER -> [ok |-> TRUE,
                 args |-> <<"qdisc", "del", "dev", op.interface[1], "root", "netem">>]

\* Tc::execute: WeoResult<Message>; `?` hands an error of get_args or of the
\* spawn to the caller
Tc_execute(op, out) ==
  IF ~Tc_get_args(op).ok
  THEN [result |-> "Err", ok |-> FALSE,
        message |-> "to use reordering, a delay option must be specified", code |-> None]
  ELSE CASE out.kind = "spawn_failed" ->
              [result |-> "Err", ok |-> FALSE, message |-> "spawn", code |-> None]
         [] out.kind = "signaled" ->
              [result |-> "Ok", ok |-> FALSE, message |-> "Process killed by signal",
               code |-> None]
         [] OTHER ->
              IF out.code = 0
              THEN [result |-> "Ok", ok |-> TRUE, message |-> "", code |-> None]
              ELSE [result |-> "Ok", ok |-> FALSE, message |-> "Exit with status code: {}",
                    code |-> Some(out.code)]

(***************************************************************************)
(* The operations and the command outcomes the executors are run on        *)
(***************************************************************************)
\* the largest exit code of the command
MaxExitCode == 2

Interfaces == {"br-lan", "eth0"}

LimitSet == {None, Some([packets |-> 2000])}

DelaySet ==
  {None,
   Some([time |-> Dec(10, 0), jitter |-> None, correlation |-> None, distribution |-> None]),
   Some([time |-> Dec(10, 0), jitter |-> Some(Dec(2, 0)), correlation |-> None,
         distribution |-> None]),
   Some([time |-> Dec(10, 0), jitter |-> Some(Dec(2, 0)), correlation |-> Some(Dec(50, 0)),
         distribution |-> None]),
   Some([time |-> Dec(10, 0), jitter |-> None, correlation |-> Some(Dec(50, 0)),
         distribution |-> None]),
   Some([time |-> Dec(105, 1), jitter |-> Some(Dec(25, 1)), correlation |-> None,
         distribution |-> Some("normal")])}

LossSet ==
  {None,
   Some([percent |-> Dec(1, 1), correlation |-> None, ecn |-> FALSE]),
   Some([percent |-> Dec(1, 1), correlation |-> Some(Dec(11, 0)), ecn |-> TRUE])}

DuplicateSet == {None, Some([percent |-> Dec(1, 1), correlation |-> Some(Dec(12, 0))])}

ReorderSet ==
  {None,
   Some([percent |-> Dec(10, 0), correlation |-> None, distance |-> None]),
   Some([percent |-> Dec(10, 0), correlation |-> Some(Dec(55, 0)), distance |-> Some(5)])}

CorruptSet == {None, Some([percent |-> Dec(3, 1), correlation |-> Some(Dec(30, 0))])}

RateSet == {None, Some([rate |-> <<"1", "0", "0", "0", "0">>])}

ControlsSet ==
  [limit : LimitSet, delay : DelaySet, loss : LossSet, corrupt : CorruptSet,
   duplicate : DuplicateSet, reorder : ReorderSet, rate : RateSet]

Operations ==
  {Set(i, c) : i \in Interfaces, c \in ControlsSet}
  \cup {Show(i) : i \in Interfaces}
  \cup {Reset(i) : i \in Interfaces}
  \cup {List}

Tc_ControlsSet ==
  [delay : {None, Some([duration |-> 10, jitter |-> None, correlation |-> Some(Dec(50, 0))]),
            Some([duration |-> 10, jitter |-> Some(12), correlation |-> None])},
   loss : {None, Some([prob |-> Dec(1, 0), random |-> Some(Dec(30, 0))])},
   duplicate : {None, Some([prob |-> Dec(1, 0), correlation |-> None])},
   reorder : {None, Some([prob |-> Dec(10, 0), correlation |-> Some(Dec(50, 0)),
                          gap |-> Some(5)])},
   corrupt : {None, Some([prob |-> Dec(2, 1), correlation |-> None])}]

Tc_Operations ==
  {Tc_Control(i, c) : i \in Interfaces, c \in Tc_ControlsSet}
  \cup {Tc_Show(i) : i \in {None} \cup {Some(j) : j \in Interfaces}}
  \cup {Tc_Reset(i) : i \in Interfaces}

\* a netem status line, as `tc qdisc show dev` prints it
StatusLine ==
  <<"q", "d", "i", "s", "c", "SP", "n", "e", "t", "e", "m", "SP", "8", "0",
  "1", "8", ":", "SP", "r", "o", "o", "t", "SP", "r", "e", "f", "c", "n",
  "t", "SP", "2", "SP", "l", "i", "m", "i", "t", "SP", "1", "0", "0", "0",
  "SP", "d", "e", "l", "a", "y", "SP", "1", "0", ".", "0", "m", "s", "SP",
  "SP", "2", ".", "0", "m", "s", "SP", "5", "0", "%", "SP", "l", "o", "s",
  "s", "SP", "0", ".", "1", "%", "SP", "1", "1", "%", "SP", "d", "u", "p",
  "l", "i", "c", "a", "t", "e", "SP", "0", ".", "1", "%", "SP", "1", "2",
  "%", "SP", "r", "e", "o", "r", "d", "e", "r", "SP", "1", "0", "%", "SP",
  "5", "5", "%", "SP", "c", "o", "r", "r", "u", "p", "t", "SP", "0", ".",
  "3", "%", "SP", "3", "0", "%", "SP", "r", "a", "t", "e", "SP", "1", "0",
  "M", "b", "i", "t", "SP", "e", "c", "n", "SP", "SP", "g", "a", "p", "SP",
  "5">>

\* a listing, as `tc qdisc show` prints it
Listing ==
  <<"q", "d", "i", "s", "c", "SP", "n", "o", "q", "u", "e", "u", "e", "SP",
  "0", ":", "SP", "d", "e", "v", "SP", "l", "o", "SP", "r", "o", "o", "t",
  "SP", "r", "e", "f", "c", "n", "t", "SP", "2", "LF", "q", "d", "i", "s",
  "c", "SP", "n", "e", "t", "e", "m", "SP", "8", "0", "1", "8", ":", "SP",
  "d", "e", "v", "SP", "b", "r", "-", "l", "a", "n", "SP", "r", "o", "o",
  "t", "SP", "r", "e", "f", "c", "n", "t", "SP", "2", "SP", "l", "i", "m",
  "i", "t", "SP", "1", "0", "0", "0", "SP", "d", "e", "l", "a", "y", "SP",
  "1", "0", ".", "0", "m", "s", "LF", "q", "d", "i", "s", "c", "SP", "f",
  "q", "_", "c", "o", "d", "e", "l", "SP", "0", ":", "SP", "d", "e", "v",
  "SP", "e", "t", "h", "0", "SP", "r", "o", "o", "t", "SP", "r", "e", "f",
  "c", "n", "t", "SP", "2", "SP", "l", "i", "m", "i", "t", "SP", "1", "0",
  "2", "4", "0", "p", "SP", "f", "l", "o", "w", "s", "SP", "1", "0", "2",
  "4", "SP", "e", "c", "n", "LF">>

\* the status of one interface, as `tc qdisc show dev br-lan` prints it
ShowLine ==
  <<"q", "d", "i", "s", "c", "SP", "n", "e", "t", "e", "m", "SP", "8", "0",
  "1", "8", ":", "SP", "d", "e", "v", "SP", "b", "r", "-", "l", "a", "n",
  "SP", "r", "o", "o", "t", "SP", "r", "e", "f", "c", "n", "t", "SP", "2",
  "SP", "l", "i", "m", "i", "t", "SP", "1", "0", "0", "0", "SP", "d", "e",
  "l", "a", "y", "SP", "1", "0", ".", "0", "m", "s", "LF">>

\* the listing of test_regex: seven root disciplines, noqueue and fq_codel
TestListing ==
  <<"q", "d", "i", "s", "c", "SP", "n", "o", "q", "u", "e", "u", "e", "SP",
  "0", ":", "SP", "d", "e", "v", "SP", "l", "o", "SP", "r", "o", "o", "t",
  "SP", "r", "e", "f", "c", "n", "t", "SP", "2", "LF", "q", "d", "i", "s",
  "c", "SP", "f", "q", "_", "c", "o", "d", "e", "l", "SP", "0", ":", "SP",
  "d", "e", "v", "SP", "e", "t", "h", "0", "SP", "r", "o", "o", "t", "SP",
  "r", "e", "f", "c", "n", "t", "SP", "2", "SP", "l", "i", "m", "i", "t",
  "SP", "1", "0", "2", "4", "0", "p", "SP", "f", "l", "o", "w", "s", "SP",
  "1", "0", "2", "4", "SP", "q", "u", "a", "n", "t", "u", "m", "SP", "1",
  "5", "1", "4", "SP", "t", "a", "r", "g", "e", "t", "SP", "5", ".", "0",
  "m", "s", "SP", "i", "n", "t", "e", "r", "v", "a", "l", "SP", "1", "0",
  "0", ".", "0", "m", "s", "SP", "m", "e", "m", "o", "r", "y", "_", "l",
  "i", "m", "i", "t", "SP", "4", "M", "b", "SP", "e", "c", "n", "LF", "q",
  "d", "i", "s", "c", "SP", "n", "o", "q", "u", "e", "u", "e", "SP", "0",
  ":", "SP", "d", "e", "v", "SP", "b", "r", "-", "l", "a", "n", "SP", "r",
  "o", "o", "t", "SP", "r", "e", "f", "c", "n", "t", "SP", "2", "LF", "q",
  "d", "i", "s", "c", "SP", "n", "o", "q", "u", "e", "u", "e", "SP", "0",
  ":", "SP", "d", "e", "v", "SP", "e", "t", "h", "0", ".", "1", "SP", "r",
  "o", "o", "t", "SP", "r", "e", "f", "c", "n", "t", "SP", "2", "LF", "q",
  "d", "i", "s", "c", "SP", "n", "o", "q", "u", "e", "u", "e", "SP", "0",
  ":", "SP", "d", "e", "v", "SP", "e", "t", "h", "0", ".", "2", "SP", "r",
  "o", "o", "t", "SP", "r", "e", "f", "c", "n", "t", "SP", "2", "LF", "q",
  "d", "i", "s", "c", "SP", "n", "o", "q", "u", "e", "u", "e", "SP", "0",
  ":", "SP", "d", "e", "v", "SP", "w", "l", "a", "n", "0", "SP", "r", "o",
  "o", "t", "SP", "r", "e", "f", "c", "n", "t", "SP", "2", "LF", "q", "d",
  "i", "s", "c", "SP", "n", "o", "q", "u", "e", "u", "e", "SP", "0", ":",
  "SP", "d", "e", "v", "SP", "w", "l", "a", "n", "1", "SP", "r", "o", "o",
  "t", "SP", "r", "e", "f", "c", "n", "t", "SP", "2">>

\* a listing with disciplines that are not at the root of their interface
ClassListing ==
  <<"q", "d", "i", "s", "c", "SP", "f", "q", "_", "c", "o", "d", "e", "l",
  "SP", "0", ":", "SP", "d", "e", "v", "SP", "e", "t", "h", "0", "SP", "p",
  "a", "r", "e", "n", "t", "SP", ":", "1", "SP", "l", "i", "m", "i", "t",
  "SP", "1", "0", "2", "4", "0", "p", "LF", "q", "d", "i", "s", "c", "SP",
  "n", "e", "t", "e", "m", "SP", "8", "0", "1", "8", ":", "SP", "d", "e",
  "v", "SP", "b", "r", "-", "l", "a", "n", "SP", "r", "o", "o", "t", "SP",
  "r", "e", "f", "c", "n", "t", "SP", "2", "SP", "l", "i", "m", "i", "t",
  "SP", "1", "0", "0", "0", "LF", "q", "d", "i", "s", "c", "SP", "i", "n",
  "g", "r", "e", "s", "s", "SP", "f", "f", "f", "f", ":", "SP", "d", "e",
  "v", "SP", "e", "t", "h", "0", "SP", "p", "a", "r", "e", "n", "t", "SP",
  "f", "f", "f", "f", ":", "f", "f", "f", "1", "LF">>

StdoutSet ==
  {<<>>, StatusLine, ShowLine, Listing, TestListing, ClassListing, <<"o", "k", "xFF">>}

StderrSet == {<<>>, <<"n", "o", "SP", "d", "e", "v">>, <<"xFF">>}

Outcomes ==
  {SpawnFailed(<<"E", "N", "O", "E", "N", "T">>)}
  \cup {Signaled(o, e) : o \in {<<>>}, e \in StderrSet}
  \cup {Exited(c, o, e) : c \in 0..MaxExitCode, o \in StdoutSet, e \in StderrSet}

(***************************************************************************)
(* respond (src/src/main.rs)                                               *)
(***************************************************************************)
\* serde_json::from_str::<Vec<Command>>: of the bodies a peer sends here only
\* the empty array is a sequence of commands
deserialize_ok(body) == body = <<"[", "]">>

\* the response to one request: its status, whether it carries a
\* Content-Type header, and its body (a serialized Message, or nothing)
respond(req) ==
  IF req.method = POST /\ req.uri = Api
  THEN IF deserialize_ok(req.body)
       THEN [status |-> 200, content_type |-> TRUE, body |-> "{\"ok\":true}"]
       ELSE [status |-> 200, content_type |-> TRUE,
             body |-> "{\"ok\":false,\"message\":\"deserialize error\"}"]
  ELSE IF req.method = GET
  THEN [status |-> 400, content_type |-> FALSE, body |-> ""]
  ELSE [status |-> 404, content_type |-> FALSE, body |-> ""]

(***************************************************************************)
(* Http::encode (src/src/proto.rs, with the earlier encoder of              *)
(* src/src/main.rs) and the cache of the rendered Date header (mod date).  *)
(* Time is counted in ticks, TicksPerSecond of them to the second.         *)
(***************************************************************************)
\* the resolution of the clock
TicksPerSecond == 2

\* the last instant of the clock
MaxClock == 5

Second(t) == t \div TicksPerSecond

\* usize and u64 as Display writes them
RECURSIVE fmt_usize(_)
fmt_usize(n) ==
  IF n < 10 THEN <<Digits[n + 1]>> ELSE fmt_usize(n \div 10) \o <<Digits[(n % 10) + 1]>>

\* DateTime::to_rfc2822 in the first minute of the epoch, in UTC: the
\* fraction of the second is not rendered
to_rfc2822(t) ==
  <<"T", "h", "u", ",", "SP", "0", "1", "SP", "J", "a", "n", "SP", "1", "9",
    "7", "0", "SP", "0", "0", ":", "0", "0", ":">>
    \o <<Digits[(Second(t) \div 10) + 1], Digits[(Second(t) % 10) + 1]>>
    \o <<"SP", "+", "0", "0", "0", "0">>

\* LAST: nothing is rendered and the next update is due at the epoch;
\* rendered records whether the latest use of the cache rendered the date
LAST == [bytes |-> <<>>, amt |-> 0, next_update |-> 0, rendered |-> FALSE]

buffer(cache) == SubSeq(cache.bytes, 1, cache.amt)

\* LastRenderedNow::update of proto.rs
update(cache, now) ==
  [bytes |-> to_rfc2822(now), amt |-> Len(to_rfc2822(now)),
   next_update |-> now + TicksPerSecond, rendered |-> TRUE]

\* Tm::rfc822 of the local time, in the first minute of the epoch, in UTC
rfc822(t) ==
  <<"T", "h", "u", ",", "SP", "0", "1", "SP", "J", "a", "n", "SP", "1", "9",
    "7", "0", "SP", "0", "0", ":", "0", "0", ":">>
    \o <<Digits[(Second(t) \div 10) + 1], Digits[(Second(t) % 10) + 1]>>
    \o <<"SP", "U", "T", "C">>

\* LastRenderedNow::update of main.rs, which clears the nanoseconds
update_main(cache, now) ==
  [bytes |-> rfc822(now), amt |-> Len(rfc822(now)),
   next_update |-> (Second(now) + 1) * TicksPerSecond, rendered |-> TRUE]

\* a cache that is rendered again at every use
needs_update_always(now, next_update) == TRUE

\* if now >= cache.next_update
needs_update(now, next_update) == now >= next_update

\* Display for Now: the cache after the call; its buffer is what is written
date_now(c, cache, now) ==
  IF needs_update(now, cache.next_update)
  THEN IF c = "proto" THEN update(cache, now) ELSE update_main(cache, now)
  ELSE [cache EXCEPT !.rendered = FALSE]

\* Display for http::StatusCode: the code and its canonical reason
fmt_status(status) ==
  CASE status = 200 -> <<"2", "0", "0", "SP", "O", "K">>
    [] status = 400 -> <<"4", "0", "0", "SP", "B", "a", "d", "SP", "R", "e", "q", "u", "e", "s",
  "t">>
    [] OTHER -> <<"4", "0", "4", "SP", "N", "o", "t", "SP", "F", "o", "u", "n", "d">>

STATUS_PREFIX == <<"H", "T", "T", "P", "/", "1", ".", "1", "SP">>

SERVER_WEO == <<"S", "e", "r", "v", "e", "r", ":", "SP", "w", "e", "o">>

SERVER_EXAMPLE == <<"S", "e", "r", "v", "e", "r", ":", "SP", "E", "x", "a", "m", "p", "l",
  "e">>

CONTENT_LENGTH_PREFIX == <<"C", "o", "n", "t", "e", "n", "t", "-", "L", "e", "n", "g", "t", "h",
  ":", "SP">>

FIXED_HEADERS ==
  <<"A", "c", "c", "e", "p", "t", "-", "R", "a", "n", "g", "e", "s", ":",
  "SP", "b", "y", "t", "e", "s", "CR", "LF", "A", "c", "c", "e", "s", "s",
  "-", "C", "o", "n", "t", "r", "o", "l", "-", "A", "l", "l", "o", "w", "-",
  "O", "r", "i", "g", "i", "n", ":", "SP", "*", "CR", "LF", "A", "c", "c",
  "e", "s", "s", "-", "C", "o", "n", "t", "r", "o", "l", "-", "A", "l", "l",
  "o", "w", "-", "H", "e", "a", "d", "e", "r", "s", ":", "SP", "*", "CR",
  "LF", "A", "c", "c", "e", "s", "s", "-", "C", "o", "n", "t", "r", "o",
  "l", "-", "A", "l", "l", "o", "w", "-", "M", "e", "t", "h", "o", "d", "s",
  ":", "SP", "*", "CR", "LF", "C", "o", "n", "n", "e", "c", "t", "i", "o",
  "n", ":", "SP", "k", "e", "e", "p", "-", "a", "l", "i", "v", "e", "CR",
  "LF">>

DATE_PREFIX == <<"D", "a", "t", "e", ":", "SP">>

\* the text write! formats in proto.rs
header_block(status, length, date) ==
  STATUS_PREFIX \o fmt_status(status) \o CRLF
    \o SERVER_WEO \o CRLF
    \o CONTENT_LENGTH_PREFIX \o fmt_usize(length) \o CRLF
    \o FIXED_HEADERS
    \o DATE_PREFIX \o date \o CRLF

\* the text write! formats in main.rs
header_block_main(status, length, date) ==
  STATUS_PREFIX \o fmt_status(status) \o CRLF
    \o SERVER_EXAMPLE \o CRLF
    \o CONTENT_LENGTH_PREFIX \o fmt_usize(length) \o CRLF
    \o DATE_PREFIX \o date \o CRLF

\* the loop of extend_dst: a line for each header, in the map's order
RECURSIVE extend_headers(_, _)
extend_headers(dst, headers) ==
  IF headers = <<>> THEN dst
  ELSE extend_headers(dst \o Head(headers).name \o <<":", "SP">> \o Head(headers).value \o CRLF,
                      Tail(headers))

\* extend_dst: the headers and the blank line
extend_dst(dst, headers) == extend_headers(dst, headers) \o CRLF

\* a Complete arm that writes the response's own headers first
encode_Complete_own_first(response, dst, date) ==
  extend_dst(dst, response.headers)
    \o header_block(response.status, Len(response.body), date)
    \o response.body

\* Resp::Complete(response)
encode_Complete(response, dst, date) ==
  extend_dst(dst \o header_block(response.status, Len(response.body), date),
             response.headers)
    \o response.body

\* a FileHeader arm that announces the length of the body it has, none
encode_FileHeader_own_length(response, file_size, dst, date) ==
  extend_dst(dst \o header_block(response.status, Len(response.body), date),
             response.headers)

\* Resp::FileHeader(response, file_size)
encode_FileHeader(response, file_size, dst, date) ==
  extend_dst(dst \o header_block(response.status, file_size, date),
             response.headers)

\* a FileContent arm that leaves the last byte of the chunk out
encode_FileContent_short(bytes, dst) == dst \o SubSeq(bytes, 1, Len(bytes) - 1)

\* Resp::FileContent(bytes)
encode_FileContent(bytes, dst) == dst \o bytes

\* the frames: Resp
Complete(response) ==
  [kind |-> "Complete", response |-> response, file_size |-> 0, bytes |-> <<>>]

FileHeader(response, file_size) ==
  [kind |-> "FileHeader", response |-> response, file_size |-> file_size, bytes |-> <<>>]

NoResponse == [status |-> 0, headers |-> <<>>, body |-> <<>>]

FileContent(bytes) ==
  [kind |-> "FileContent", response |-> NoResponse, file_size |-> 0, bytes |-> bytes]

\* Encoder<Resp>::encode of proto.rs: the buffer and the cache after it
encode(item, dst, cache, now) ==
  CASE item.kind = "Complete" ->
         [dst |-> encode_Complete(item.response, dst, buffer(date_now("proto", cache, now))),
          cache |-> date_now("proto", cache, now)]
    [] item.kind = "FileHeader" ->
         [dst |-> encode_FileHeader(item.response, item.file_size, dst,
                                    buffer(date_now("proto", cache, now))),
          cache |-> date_now("proto", cache, now)]
    [] OTHER ->
         [dst |-> encode_FileContent(item.bytes, dst), cache |-> cache]

\* Encoder::encode of main.rs, whose item is a Response<String>
encode_main(item, dst, cache, now) ==
  [dst |-> extend_dst(dst \o header_block_main(item.response.status, Len(item.response.body),
                                               buffer(date_now("main", cache, now))),
                      item.response.headers)
             \o item.response.body,
   cache |-> date_now("main", cache, now)]

(***************************************************************************)
(* One connection: process (src/src/main.rs) driving Framed<TcpStream,     *)
(* Http>                                                                   *)
(***************************************************************************)
VARIABLES
  codec,        \* which Http codec the connection runs: "proto" or "main"
  wire,         \* the bytes the peer has still to send
  stream,       \* every byte read from the socket so far
  src,          \* the read buffer (BytesMut) decode works on
  is_readable,  \* FramedRead: the buffer may hold a frame
  eof,          \* FramedRead: the socket reported end of stream
  pc,           \* process: "next", "respond", "done", "failed", "panicked"
  request,      \* the request being answered
  responses,    \* the responses sent, in order
  last,         \* the latest call of decode: the buffer before and after it,
                \* what decode returned (decoded) and what the stream yields (res)
  waiting       \* the request whose body the codec is waiting for, if any

conn_vars == <<codec, wire, stream, src, is_readable, eof, pc, request, responses,
               last, waiting>>

\* one run of an executor
VARIABLES
  executor,     \* which executor ran: "none", "NetEm" or "Tc"
  op,           \* the operation it was given
  outcome,      \* what running the command came to
  spawned,      \* the argument lists `tc` was started with, in order
  output        \* the result of execute

exec_vars == <<executor, op, outcome, spawned, output>>

\* the server: the accept loop of main and the task of each connection
VARIABLES
  listener,     \* the accept loop: whether it still runs, and how many
                \* connections it has accepted
  conns         \* the task of each connection, by the order of acceptance

server_vars == <<listener, conns>>

\* the sink of a connection: Framed<TcpStream, Http> encoding what is sent
VARIABLES
  clock,        \* the wall clock (Local::now), in ticks
  cache,        \* the cache of the rendered date (LAST)
  dst,          \* the write buffer encode appends to
  sent,         \* the latest call of encode: its item, the instant, and the
                \* buffer and the cache before and after it
  sender        \* the response being streamed, if any

enc_vars == <<clock, cache, dst, sent, sender>>

NoCall ==
  [res |-> "NoCall", decoded |-> "NoCall", before |-> <<>>, after |-> <<>>,
   req |-> NoRequest, amt |-> 0, need |-> 0, start |-> 0, eof |-> FALSE,
   pending |-> [active |-> FALSE, start |-> 0, amt |-> 0, need |-> 0]]

NotWaiting == [active |-> FALSE, start |-> 0, amt |-> 0, need |-> 0]

ConnInit ==
  /\ codec \in {"proto", "main"}
  /\ wire \in Scripts
  /\ stream = <<>>
  /\ src = <<>>
  /\ is_readable = FALSE
  /\ eof = FALSE
  /\ pc = "next"
  /\ request = NoRequest
  /\ responses = <<>>
  /\ last = NoCall
  /\ waiting = NotWaiting

\* the socket read of FramedRead::poll_next: k more bytes arrive
Read(k) ==
  /\ pc = "next"
  /\ ~is_readable
  /\ ~eof
  /\ k \in 1..Len(wire)
  /\ k <= MaxRead
  /\ src' = src \o SubSeq(wire, 1, k)
  /\ stream' = stream \o SubSeq(wire, 1, k)
  /\ wire' = SubSeq(wire, k + 1, Len(wire))
  /\ is_readable' = TRUE
  /\ UNCHANGED <<codec, eof, pc, request, responses, last, waiting>>
  /\ UNCHANGED <<exec_vars, server_vars, enc_vars>>

\* the socket read returns 0 bytes: the peer has closed its side
ReadEof ==
  /\ pc = "next"
  /\ ~is_readable
  /\ ~eof
  /\ eof' = TRUE
  /\ is_readable' = TRUE
  /\ wire' = <<>>
  /\ UNCHANGED <<codec, stream, src, pc, request, responses, last, waiting>>
  /\ UNCHANGED <<exec_vars, server_vars, enc_vars>>

codec_decode(c, buf) == IF c = "proto" THEN decode(buf) ELSE decode_main(buf)

\* transport.next(): one call of decode (decode_eof at end of stream) and
\* what process does with its result
Poll ==
  /\ pc = "next"
  /\ is_readable
  /\ \E d0 \in {codec_decode(codec, src)} :
     \E d \in {IF eof THEN decode_eof(d0) ELSE d0} :
     \E start \in {Len(stream) - Len(src)} :
       /\ src' = d.src
       /\ last' = [res |-> d.res, decoded |-> d0.res, before |-> src,
                   after |-> d.src, req |-> d.req, amt |-> d.amt, need |-> d.need,
                   start |-> start, eof |-> eof, pending |-> waiting]
       /\ waiting' = IF d0.res = "None" /\ d0.amt > 0
                     THEN [active |-> TRUE, start |-> start, amt |-> d0.amt,
                           need |-> d0.need]
                     ELSE IF d0.res = "None" THEN waiting
                     ELSE NotWaiting
       /\ request' = IF d.res = "Some" THEN d.req ELSE request
       /\ pc' = CASE d.res = "Some" -> "respond"
                  [] d.res = "Err" -> "failed"
                  [] d.res = "Panic" -> "panicked"
                  [] OTHER -> IF eof THEN "done" ELSE "next"
       /\ is_readable' = IF d.res = "None" THEN FALSE ELSE is_readable
  /\ UNCHANGED <<codec, wire, stream, eof, responses>>
  /\ UNCHANGED <<exec_vars, server_vars, enc_vars>>

\* respond(request).await? and transport.send(response).await?
Respond ==
  /\ pc = "respond"
  /\ responses' = Append(responses, respond(request))
  /\ pc' = "next"
  /\ UNCHANGED <<codec, wire, stream, src, is_readable, eof, request, last, waiting>>
  /\ UNCHANGED <<exec_vars, server_vars, enc_vars>>

(***************************************************************************)
(* One run of an executor                                                  *)
(***************************************************************************)
NoOutcome == [kind |-> "none", code |-> 0, stdout |-> <<>>, stderr |-> <<>>, error |-> <<>>]

ExecInit ==
  /\ executor = "none"
  /\ op = List
  /\ outcome = NoOutcome
  /\ spawned = <<>>
  /\ output = Output_Ok

\* NetEm::execute: the arguments are built, the command is run, and the match
\* on its outcome gives the Output
NetEmExecute ==
  /\ executor = "none"
  /\ \E o \in Operations, r \in Outcomes :
       /\ op' = o
       /\ outcome' = r
       /\ spawned' = Append(spawned, NetEm_to_args(o))
       /\ output' = NetEm_execute(o, r)
  /\ executor' = "NetEm"
  /\ UNCHANGED <<conn_vars, server_vars, enc_vars>>

\* Tc::execute: the command is run only with arguments get_args gave
TcExecute ==
  /\ executor = "none"
  /\ \E o \in Tc_Operations, r \in Outcomes :
       /\ op' = o
       /\ outcome' = IF Tc_get_args(o).ok THEN r ELSE NoOutcome
       /\ spawned' = IF Tc_get_args(o).ok THEN Append(spawned, Tc_get_args(o).args)
                     ELSE spawned
       /\ output' = Tc_execute(o, r)
  /\ executor' = "Tc"
  /\ UNCHANGED <<conn_vars, server_vars, enc_vars>>

(***************************************************************************)
(* A Show of one status line: the executor is run on lines put together    *)
(* from the pieces netem prints                                            *)
(***************************************************************************)
NetemRoot == <<"q", "d", "i", "s", "c", "SP", "n", "e", "t", "e", "m", "SP", "8", "0",
  "1", "8", ":", "SP", "r", "o", "o", "t", "SP", "r", "e", "f", "c", "n",
  "t", "SP", "2">>

\* what the line says of each field: a value, or a number that does not parse
GoodLimit == <<"SP", "l", "i", "m", "i", "t", "SP", "1", "0", "0", "0">>

BadLimit == <<"SP", "l", "i", "m", "i", "t", "SP", "-">>

GoodDelay == <<"SP", "d", "e", "l", "a", "y", "SP", "1", "0", ".", "0", "m", "s">>

BadDelay == <<"SP", "d", "e", "l", "a", "y", "SP", "1", ".", "2", ".", "3", "m", "s">>

GoodLoss == <<"SP", "l", "o", "s", "s", "SP", "0", ".", "1", "%", "SP", "1", "1",
  "%">>

BadLoss == <<"SP", "l", "o", "s", "s", "SP", ".", ".", "%">>

GoodDuplicate == <<"SP", "d", "u", "p", "l", "i", "c", "a", "t", "e", "SP", "0", ".", "1",
  "%">>

BadDuplicate == <<"SP", "d", "u", "p", "l", "i", "c", "a", "t", "e", "SP", "1", ".", "2",
  ".", "3", "%">>

GoodReorder == <<"SP", "r", "e", "o", "r", "d", "e", "r", "SP", "1", "0", "%", "SP", "5",
  "5", "%">>

BadReorder == <<"SP", "r", "e", "o", "r", "d", "e", "r", "SP", ".", "%">>

GoodCorrupt == <<"SP", "c", "o", "r", "r", "u", "p", "t", "SP", "0", ".", "3", "%">>

BadCorrupt == <<"SP", "c", "o", "r", "r", "u", "p", "t", "SP", "1", ".", ".", "2", "%">>

GoodRate == <<"SP", "r", "a", "t", "e", "SP", "1", "0", "M", "b", "i", "t">>

BadRate == <<"SP", "r", "a", "t", "e", "SP", "1", ".", "5", "M", "b", "i", "t">>

\* the status lines with, for each field, nothing, a value or a number that
\* does not parse
StatusLines ==
  {NetemRoot \o l \o d \o s \o u \o r \o c \o t :
     l \in {<<>>, GoodLimit, BadLimit}, d \in {<<>>, GoodDelay, BadDelay},
     s \in {<<>>, GoodLoss, BadLoss}, u \in {<<>>, GoodDuplicate, BadDuplicate},
     r \in {<<>>, GoodReorder, BadReorder}, c \in {<<>>, GoodCorrupt, BadCorrupt},
     t \in {<<>>, GoodRate, BadRate}}

\* NetEm::execute of a Show whose command exits with code 0 and prints line
show_line(interface, line) ==
  /\ executor = "none"
  /\ op' = Show(interface)
  /\ outcome' = Exited(0, line, <<>>)
  /\ spawned' = Append(spawned, NetEm_to_args(Show(interface)))
  /\ output' = NetEm_execute(Show(interface), Exited(0, line, <<>>))
  /\ executor' = "NetEm"
  /\ UNCHANGED <<conn_vars, server_vars, enc_vars>>

ShowStatus == \E i \in Interfaces, line \in StatusLines : show_line(i, line)

\* the numbers and the units of the rates that are shown
RateNumbers ==
  {<<"0">>,
   <<"1">>,
   <<"1", "0">>,
   <<"0", "0", "7">>,
   <<"1", "8", "4", "4", "6", "7", "4", "4">>,
   <<"1", "8", "4", "4", "6", "7", "4", "5">>,
   <<"1", "8", "4", "4", "6", "7", "4", "4", "0", "7", "3", "7", "0", "9",
    "5", "5", "1">>,
   <<"1", "8", "4", "4", "6", "7", "4", "4", "0", "7", "3", "7", "0", "9",
    "5", "5", "2">>,
   <<"1", "8", "4", "4", "6", "7", "4", "4", "0", "7", "3", "7", "0", "9",
    "5", "5", "1", "6", "1", "5">>,
   <<"1", "8", "4", "4", "6", "7", "4", "4", "0", "7", "3", "7", "0", "9",
    "5", "5", "1", "6", "1", "6">>}

RateUnits == {<<"b", "i", "t">>, <<"K", "b", "i", "t">>, <<"M", "b", "i", "t">>,
              <<"G", "b", "i", "t">>, <<"T", "b", "i", "t">>}

RateLine(n, u) == NetemRoot \o <<"SP", "r", "a", "t", "e", "SP">> \o n \o u

ShowRate ==
  \E i \in Interfaces, n \in RateNumbers, u \in RateUnits : show_line(i, RateLine(n, u))

(***************************************************************************)
(* The server: main (src/src/main.rs) accepts connections and spawns one   *)
(* task running process for each                                           *)
(***************************************************************************)
\* the largest number of connections
MaxConns == 2

\* the largest number of bytes one read of a connection's socket brings when
\* it does not bring everything the peer has sent
MaxSegment == 41

ConnIds == 1..MaxConns

\* what the peers of the server send
ServerScripts ==
  { RequestBytes(GET, Root, HTTP_1_1, <<>>, <<>>),
    RequestBytes(POST, Api, HTTP_1_1, ContentLengthHeader(2), <<"{", "}">>),
    RequestBytes(GET, Root, HTTP_1_0, HostHeader, <<>>),
    RequestBytes(POST, Api, HTTP_1_1, ContentLengthHeader(2), <<"[", "]">>)
      \o RequestBytes(GET, Root, HTTP_1_1, <<>>, <<>>) }

\* a connection nobody has made yet
NoConn ==
  [pc |-> "unaccepted", wire |-> <<>>, read |-> 0, src |-> <<>>, is_readable |-> FALSE,
   eof |-> FALSE, request |-> NoRequest, requests |-> <<>>, responses |-> <<>>]

\* tokio::spawn(process(stream)): Framed::new(stream, Http)
spawn_process(script) == [NoConn EXCEPT !.pc = "next", !.wire = script]

\* where process goes after transport.next(): to respond with a request, out
\* of the loop with Ok(()) at the end of the stream, out with Err(e) on an
\* error; no value means the stream reads on
next_pc_unordered(res, at_eof) ==
  CASE res = "Err" -> "failed"
    [] res = "Panic" -> "panicked"
    [] OTHER -> IF at_eof THEN "done" ELSE "next"

next_pc(res, at_eof) ==
  CASE res = "Some" -> "respond"
    [] res = "Err" -> "failed"
    [] res = "Panic" -> "panicked"
    [] OTHER -> IF at_eof THEN "done" ELSE "next"

\* the socket read of FramedRead::poll_next on one connection
conn_read(c, k) ==
  [c EXCEPT !.src = c.src \o SubSeq(c.wire, 1, k),
            !.wire = SubSeq(c.wire, k + 1, Len(c.wire)),
            !.read = c.read + k,
            !.is_readable = TRUE]

\* the socket read returns 0 bytes: the peer has closed its side
conn_read_eof(c) == [c EXCEPT !.eof = TRUE, !.is_readable = TRUE, !.wire = <<>>]

\* transport.next() on one connection; a decoded request is remembered with
\* the place in the stream where it began
conn_poll(c, d) ==
  [c EXCEPT !.src = d.src,
            !.request = IF d.res = "Some" THEN d.req ELSE c.request,
            !.requests = IF d.res = "Some"
                         THEN Append(c.requests,
                                     [req |-> d.req, at |-> c.read - Len(c.src)])
                         ELSE c.requests,
            !.pc = next_pc(d.res, c.eof),
            !.is_readable = IF d.res = "None" THEN FALSE ELSE c.is_readable]

\* respond(request).await? and transport.send(response).await?
conn_respond(c) ==
  [c EXCEPT !.responses = Append(c.responses, respond(c.request)), !.pc = "next"]

\* an accept loop that stops at the first task that fails
on_task_error_stop(l) == [l EXCEPT !.listening = FALSE]

\* if let Err(e) = process(stream).await { println!(...) }: the error of a
\* task is printed inside the task and the accept loop does not see it
on_task_error(l) == l

\* the accept loop after a step of a task
after_task_step(l, before, after) ==
  IF after.pc = "failed" /\ before.pc # "failed" THEN on_task_error(l) ELSE l

ServerIdle ==
  /\ listener = [listening |-> FALSE, accepted |-> 0]
  /\ conns = [i \in ConnIds |-> NoConn]

ServerInit ==
  /\ listener = [listening |-> TRUE, accepted |-> 0]
  /\ conns = [i \in ConnIds |-> NoConn]

\* listener.accept().await gives a stream, and a task is spawned for it
Accept ==
  /\ listener.listening
  /\ listener.accepted < MaxConns
  /\ \E script \in ServerScripts :
       conns' = [conns EXCEPT ![listener.accepted + 1] = spawn_process(script)]
  /\ listener' = [listener EXCEPT !.accepted = listener.accepted + 1]
  /\ UNCHANGED <<conn_vars, exec_vars, enc_vars>>

\* listener.accept().await gives an error: `while let Ok(..)` ends and main
\* returns Ok(()); the runtime then shuts down, and the tasks still running
\* are dropped with it or run on until it has shut down
AcceptError ==
  /\ listener.listening
  /\ listener' = [listener EXCEPT !.listening = FALSE]
  /\ \E dropped \in BOOLEAN :
       conns' = [i \in ConnIds |->
                   IF dropped /\ conns[i].pc \in {"next", "respond"}
                   THEN [conns[i] EXCEPT !.pc = "dropped"]
                   ELSE conns[i]]
  /\ UNCHANGED <<conn_vars, exec_vars, enc_vars>>

ServerRead(i) ==
  /\ conns[i].pc = "next"
  /\ ~conns[i].is_readable
  /\ ~conns[i].eof
  /\ conns[i].wire # <<>>
  /\ \E k \in {Len(conns[i].wire), MaxSegment} :
       /\ k <= Len(conns[i].wire)
       /\ conns' = [conns EXCEPT ![i] = conn_read(conns[i], k)]
  /\ UNCHANGED <<listener, conn_vars, exec_vars, enc_vars>>

ServerReadEof(i) ==
  /\ conns[i].pc = "next"
  /\ ~conns[i].is_readable
  /\ ~conns[i].eof
  /\ conns' = [conns EXCEPT ![i] = conn_read_eof(conns[i])]
  /\ UNCHANGED <<listener, conn_vars, exec_vars, enc_vars>>

\* the socket gives an error to a read (transport.next() yields Err(e) and
\* process returns it) or to the write of a response (send(response).await?)
SocketError(i) ==
  /\ \/ conns[i].pc = "next" /\ ~conns[i].is_readable /\ ~conns[i].eof
     \/ conns[i].pc = "respond"
  /\ \E after \in {[conns[i] EXCEPT !.pc = "failed"]} :
       /\ conns' = [conns EXCEPT ![i] = after]
       /\ listener' = after_task_step(listener, conns[i], after)
  /\ UNCHANGED <<conn_vars, exec_vars, enc_vars>>

ServerPoll(i) ==
  /\ conns[i].pc = "next"
  /\ conns[i].is_readable
  /\ \E d0 \in {codec_decode(codec, conns[i].src)} :
     \E d \in {IF conns[i].eof THEN decode_eof(d0) ELSE d0} :
     \E after \in {conn_poll(conns[i], d)} :
       /\ conns' = [conns EXCEPT ![i] = after]
       /\ listener' = after_task_step(listener, conns[i], after)
  /\ UNCHANGED <<conn_vars, exec_vars, enc_vars>>

ServerRespond(i) ==
  /\ conns[i].pc = "respond"
  /\ conns' = [conns EXCEPT ![i] = conn_respond(conns[i])]
  /\ UNCHANGED <<listener, conn_vars, exec_vars, enc_vars>>

(***************************************************************************)
(* The sink: what a connection sends is encoded into the write buffer,     *)
(* which is flushed to the socket                                          *)
(***************************************************************************)
\* the largest file that is streamed, in bytes
MaxFileSize == 3

\* the read buffer a file is streamed through, in bytes
BufSize == 2

JsonType ==
  [name |-> <<"c", "o", "n", "t", "e", "n", "t", "-", "t", "y", "p", "e">>,
   value |-> <<"a", "p", "p", "l", "i", "c", "a", "t", "i", "o", "n", "/", "j", "s",
    "o", "n">>]

NoCache ==
  [name |-> <<"c", "a", "c", "h", "e", "-", "c", "o", "n", "t", "r", "o", "l">>,
   value |-> <<"n", "o", "-", "c", "a", "c", "h", "e">>]

Response(status, headers, body) == [status |-> status, headers |-> headers, body |-> body]

EncResponses ==
  {Response(200, <<JsonType, NoCache>>, <<"{", "\"", "o", "k", "\"", ":", "t", "r", "u", "e", "}">>),
   Response(400, <<JsonType>>, <<>>),
   Response(404, <<>>, <<>>)}

\* the first n bytes of the file that is streamed
File(n) == SubSeq(<<"a", "b", "c", "d", "e", "f", "g", "h">>, 1, n)

NoSend ==
  [item |-> FileContent(<<>>), now |-> 0, before |-> <<>>, after |-> <<>>,
   cache_before |-> LAST, cache_after |-> LAST, encoded |-> FALSE]

NoStream ==
  [streaming |-> FALSE, file |-> <<>>, announced |-> 0, headers |-> 0, chunk_bytes |-> 0]

codec_encode(c, item, d, ca, now) ==
  IF c = "proto" THEN encode(item, d, ca, now) ELSE encode_main(item, d, ca, now)

\* Sink::start_send: the item is encoded into the write buffer
start_send(item) ==
  /\ \E e \in {codec_encode(codec, item, dst, cache, clock)} :
       /\ dst' = e.dst
       /\ cache' = e.cache
       /\ sent' = [item |-> item, now |-> clock, before |-> dst, after |-> e.dst,
                   cache_before |-> cache, cache_after |-> e.cache, encoded |-> TRUE]
  /\ UNCHANGED clock

EncIdle ==
  /\ clock = 0
  /\ cache = LAST
  /\ dst = <<>>
  /\ sent = NoSend
  /\ sender = NoStream

EncInit ==
  /\ clock \in 0..MaxClock
  /\ cache = LAST
  /\ dst = <<>>
  /\ sent = NoSend
  /\ sender = NoStream

\* the wall clock advances
Tick ==
  /\ clock < MaxClock
  /\ clock' = clock + 1
  /\ UNCHANGED <<cache, dst, sent, sender>>
  /\ UNCHANGED <<conn_vars, exec_vars, server_vars>>

\* the wall clock is set back
Adjust ==
  /\ \E t \in 0..MaxClock : t < clock /\ clock' = t
  /\ UNCHANGED <<cache, dst, sent, sender>>
  /\ UNCHANGED <<conn_vars, exec_vars, server_vars>>

\* the write buffer is written to the socket
Flush ==
  /\ dst # <<>>
  /\ dst' = <<>>
  /\ UNCHANGED <<clock, cache, sent, sender>>
  /\ UNCHANGED <<conn_vars, exec_vars, server_vars>>

\* a response is sent whole, once the response before it is flushed
\* (SinkExt::send)
SendComplete ==
  /\ ~sender.streaming
  /\ dst = <<>>
  /\ \E response \in EncResponses : start_send(Complete(response))
  /\ UNCHANGED sender
  /\ UNCHANGED <<conn_vars, exec_vars, server_vars>>

\* a file is found: its size is announced in a header-only frame
StreamBegin ==
  /\ codec = "proto"
  /\ ~sender.streaming
  /\ dst = <<>>
  /\ \E n \in 0..MaxFileSize :
       /\ start_send(FileHeader(Response(200, <<>>, <<>>), n))
       /\ sender' = [streaming |-> TRUE, file |-> File(n), announced |-> n,
                     headers |-> 1, chunk_bytes |-> 0]
  /\ UNCHANGED <<conn_vars, exec_vars, server_vars>>

\* the read buffer is filled from the file and sent as a content chunk
StreamChunk ==
  /\ sender.streaming
  /\ sender.file # <<>>
  /\ \E n \in {IF Len(sender.file) < BufSize THEN Len(sender.file) ELSE BufSize} :
       /\ start_send(FileContent(SubSeq(sender.file, 1, n)))
       /\ sender' = [sender EXCEPT !.file = SubSeq(sender.file, n + 1, Len(sender.file)),
                                   !.chunk_bytes = @ + (Len(dst') - Len(dst))]
  /\ UNCHANGED <<conn_vars, exec_vars, server_vars>>

\* the file is at its end
StreamEnd ==
  /\ sender.streaming
  /\ sender.file = <<>>
  /\ sender' = [sender EXCEPT !.streaming = FALSE]
  /\ UNCHANGED <<clock, cache, dst, sent>>
  /\ UNCHANGED <<conn_vars, exec_vars, server_vars>>

vars == <<conn_vars, exec_vars, server_vars, enc_vars>>

\* a connection that is never used
ConnIdle ==
  /\ codec = "proto"
  /\ wire = <<>>
  /\ stream = <<>>
  /\ src = <<>>
  /\ is_readable = FALSE
  /\ eof = TRUE
  /\ pc = "done"
  /\ request = NoRequest
  /\ responses = <<>>
  /\ last = NoCall
  /\ waiting = NotWaiting

\* the connections
Init == ConnInit /\ ExecInit /\ ServerIdle /\ EncIdle

Next ==
  \/ \E k \in 1..MaxRead : Read(k)
  \/ ReadEof
  \/ Poll
  \/ Respond

Spec == Init /\ [][Next]_vars

\* the executors
InitExec == ConnIdle /\ ExecInit /\ ServerIdle /\ EncIdle

NextExec ==
  \/ NetEmExecute
  \/ TcExecute

SpecExec == InitExec /\ [][NextExec]_vars

\* the server; every task runs the same codec
InitServer ==
  /\ codec \in {"proto", "main"}
  /\ wire = <<>>
  /\ stream = <<>>
  /\ src = <<>>
  /\ is_readable = FALSE
  /\ eof = TRUE
  /\ pc = "done"
  /\ request = NoRequest
  /\ responses = <<>>
  /\ last = NoCall
  /\ waiting = NotWaiting
  /\ ExecInit
  /\ ServerInit
  /\ EncIdle

NextServer ==
  \/ Accept
  \/ AcceptError
  \/ \E i \in ConnIds : ServerRead(i)
  \/ \E i \in ConnIds : ServerReadEof(i)
  \/ \E i \in ConnIds : SocketError(i)
  \/ \E i \in ConnIds : ServerPoll(i)
  \/ \E i \in ConnIds : ServerRespond(i)

SpecServer == InitServer /\ [][NextServer]_vars

\* the sink of one connection
InitEncode ==
  /\ codec \in {"proto", "main"}
  /\ wire = <<>>
  /\ stream = <<>>
  /\ src = <<>>
  /\ is_readable = FALSE
  /\ eof = TRUE
  /\ pc = "done"
  /\ request = NoRequest
  /\ responses = <<>>
  /\ last = NoCall
  /\ waiting = NotWaiting
  /\ ExecInit
  /\ ServerIdle
  /\ EncInit

NextEncode ==
  \/ Tick
  \/ Adjust
  \/ Flush
  \/ SendComplete
  \/ StreamBegin
  \/ StreamChunk
  \/ StreamEnd

SpecEncode == InitEncode /\ [][NextEncode]_vars

\* the executor shown single status lines
NextStatus ==
  \/ ShowStatus
  \/ ShowRate

SpecStatus == InitExec /\ [][NextStatus]_vars


(***************************************************************************)
(* Properties of the executors (SpecExec)                                  *)
(***************************************************************************)
\* the argument list `tc` was started with, and its tokens after the head
Args == spawned[1]

ControlTokens == SubSeq(Args, 7, Len(Args))

Keywords == <<"limit", "delay", "loss", "duplicate", "reorder", "corrupt", "rate">>

\* the places of a token in the control tokens
Places(kw) == {i \in 1..Len(ControlTokens) : ControlTokens[i] = kw}

\* the field of the Controls a keyword stands for is present
FieldPresent(n) ==
  CASE n = 1 -> op.controls.limit # <<>>
    [] n = 2 -> op.controls.delay # <<>>
    [] n = 3 -> op.controls.loss # <<>>
    [] n = 4 -> op.controls.duplicate # <<>>
    [] n = 5 -> op.controls.reorder # <<>>
    [] n = 6 -> op.controls.corrupt # <<>>
    [] n = 7 -> op.controls.rate # <<>>

NetEmSet == executor = "NetEm" /\ op.type = "set"

ReorderWithoutDelay == op.controls.reorder # <<>> /\ op.controls.delay = <<>>

\* C1: a Set whose Controls has reorder and no delay is classified invalid:
\* the result is an Error with server = false and tc is never started for it.
C1_ReorderWithoutDelayRejected ==
  (NetEmSet /\ ReorderWithoutDelay)
    => (output.status = "error" /\ output.server = FALSE /\ spawned = <<>>)

\* C2: the control tokens depend on the Controls alone; the groups of the
\* present fields come in the order limit, delay, loss, duplicate, reorder,
\* corrupt, rate, each starting with its keyword, and the reorder group is
\* there exactly when reorder is present and the delay group is there too.
C2_ControlsToArgsOrder ==
  NetEmSet =>
    /\ \A n \in 1..7 : Cardinality(Places(Keywords[n])) <= 1
    /\ \A n \in {1, 2, 3, 4, 6, 7} : (Places(Keywords[n]) # {}) <=> FieldPresent(n)
    /\ (Places("reorder") # {}) <=> (FieldPresent(5) /\ Places("delay") # {})
    /\ \A n, m \in 1..7 :
         (n < m) => \A i \in Places(Keywords[n]), j \in Places(Keywords[m]) : i < j
    /\ ControlTokens # <<>> => \E n \in 1..7 : ControlTokens[1] = Keywords[n]
    /\ ControlTokens = Controls_to_args(op.controls)

C2_Witness ==
  /\ NetEmSet
  /\ ReorderWithoutDelay
  /\ Places("reorder") = {}
  /\ Places("limit") = {1}
  /\ Places("rate") # {}
  /\ Places("corrupt") # {}

\* C3: the argument list is a fixed template for each kind of operation:
\* Set gives qdisc replace dev i root netem and then the tokens of the
\* Controls, Show gives qdisc show dev i, Reset gives qdisc del dev i root
\* netem, List gives qdisc show; the interface is the fourth argument.
C3_ArgumentTemplates ==
  executor = "NetEm" =>
    /\ Len(spawned) = 1
    /\ op.type = "set" =>
         /\ SubSeq(Args, 1, 6) = <<"qdisc", "replace", "dev", op.interface, "root", "netem">>
         /\ ControlTokens = Controls_to_args(op.controls)
    /\ op.type = "show" => Args = <<"qdisc", "show", "dev", op.interface>>
    /\ op.type = "reset" => Args = <<"qdisc", "del", "dev", op.interface, "root", "netem">>
    /\ op.type = "list" => Args = <<"qdisc", "show">>
    /\ op.type # "list" => Args[4] = op.interface

C3_Witness ==
  /\ NetEmSet
  /\ op.interface = "br-lan"
  /\ Len(Args) > 6
  /\ Args[4] = "br-lan"

HasInvalidByte(bytes) == \E i \in 1..Len(bytes) : bytes[i] = "xFF"

CommandFailed ==
  \/ outcome.kind = "spawn_failed"
  \/ outcome.kind = "signaled"
  \/ outcome.kind = "exited" /\ outcome.code # 0

\* C9: when tc cannot be started, is ended by a signal or exits with a code
\* other than 0, the result of every operation is an Error with server =
\* true; after such an exit the description holds the code and, when stderr
\* is text, stderr.
C9_FailureIsServerError ==
  (executor = "NetEm" /\ CommandFailed) =>
    /\ output.status = "error"
    /\ output.server = TRUE
    /\ outcome.kind = "exited" =>
         /\ output.description.code = <<outcome.code>>
         /\ ~HasInvalidByte(outcome.stderr) =>
              output.description.text = <<outcome.stderr>>

C9_Witness ==
  /\ executor = "NetEm"
  /\ op.type = "show"
  /\ outcome.kind = "exited"
  /\ outcome.code = 2
  /\ outcome.stderr = <<"n", "o", "SP", "d", "e", "v">>
  /\ output.status = "error"
  /\ output.server = TRUE
  /\ output.description.text = <<outcome.stderr>>

\* C10: when tc exits with code 0 for a Set or a Reset the result is plain
\* Ok, whatever tc wrote to stdout and stderr.
C10_SetResetOk ==
  (executor = "NetEm" /\ op.type \in {"set", "reset"}
     /\ outcome.kind = "exited" /\ outcome.code = 0)
    => output.status = "ok"

\* the command exited with code 0 and wrote text to stdout
ExitedWithText ==
  /\ executor = "NetEm"
  /\ outcome.kind = "exited"
  /\ outcome.code = 0
  /\ ~HasInvalidByte(outcome.stdout)

\* what the fixture status line says
FixtureControls ==
  [limit |-> <<[packets |-> 1000]>>,
   delay |-> <<[time |-> [m |-> 10, k |-> 0], jitter |-> <<[m |-> 2, k |-> 0]>>,
                correlation |-> <<[m |-> 50, k |-> 0]>>, distribution |-> <<>>]>>,
   loss |-> <<[percent |-> [m |-> 1, k |-> 1], correlation |-> <<[m |-> 11, k |-> 0]>>,
               ecn |-> TRUE]>>,
   corrupt |-> <<[percent |-> [m |-> 3, k |-> 1], correlation |-> <<[m |-> 30, k |-> 0]>>]>>,
   duplicate |-> <<[percent |-> [m |-> 1, k |-> 1], correlation |-> <<[m |-> 12, k |-> 0]>>]>>,
   reorder |-> <<[percent |-> [m |-> 10, k |-> 0], correlation |-> <<[m |-> 55, k |-> 0]>>,
                  distance |-> <<5>>]>>,
   rate |-> <<[rate |-> <<"1", "0", "0", "0", "0", "0", "0", "0">>]>>]

\* what the status of br-lan says: a limit and a delay
ShowLineControls ==
  [limit |-> <<[packets |-> 1000]>>,
   delay |-> <<[time |-> [m |-> 10, k |-> 0], jitter |-> <<>>, correlation |-> <<>>,
                distribution |-> <<>>]>>,
   loss |-> <<>>, corrupt |-> <<>>, duplicate |-> <<>>, reorder |-> <<>>, rate |-> <<>>]

NoControls ==
  [limit |-> <<>>, delay |-> <<>>, loss |-> <<>>, corrupt |-> <<>>, duplicate |-> <<>>,
   reorder |-> <<>>, rate |-> <<>>]

\* the controls and the interface names a text of the model holds
ControlsIn(text) ==
  CASE text = StatusLine -> FixtureControls
    [] text = ShowLine -> ShowLineControls
    [] OTHER -> NoControls

InterfacesIn(text) ==
  CASE text = Listing -> <<"lo", "br-lan", "eth0">>
    [] text = ShowLine -> <<"br-lan">>
    [] text = TestListing -> <<"lo", "eth0", "br-lan", "eth0.1", "eth0.2", "wlan0", "wlan1">>
    [] text = ClassListing -> <<"br-lan">>
    [] OTHER -> <<>>

\* C11: when tc exits with code 0 and stdout is text, Show(i) gives a
\* Controls result with the interface i of the request and the controls read
\* from stdout, List gives an Interfaces result with the names read from
\* stdout, and neither gives plain Ok.
C11_ShowListResults ==
  ExitedWithText =>
    /\ op.type = "show" =>
         /\ output.status = "controls"
         /\ output.interface = op.interface
         /\ output.controls = ControlsIn(outcome.stdout)
    /\ op.type = "list" =>
         /\ output.status = "interfaces"
         /\ output.list = InterfacesIn(outcome.stdout)

C11_Witness ==
  /\ ExitedWithText
  /\ op.type = "show"
  /\ op.interface = "eth0"
  /\ outcome.stdout = StatusLine
  /\ output.status = "controls"
  /\ output.interface = "eth0"
  /\ output.controls.rate # <<>>

\* C12: for a Show whose command exits with code 0, a stdout that is not
\* text, or a text that does not begin with "qdisc netem", gives an Error
\* with server = true and no Controls result.
C12_ShowBadOutputIsServerError ==
  (executor = "NetEm" /\ op.type = "show" /\ outcome.kind = "exited" /\ outcome.code = 0
     /\ (\/ HasInvalidByte(outcome.stdout)
         \/ Len(outcome.stdout) < 11
         \/ SubSeq(outcome.stdout, 1, 11)
              # <<"q", "d", "i", "s", "c", "SP", "n", "e", "t", "e", "m">>))
    => (output.status = "error" /\ output.server = TRUE)

(***************************************************************************)
(* Properties of the codec (Spec)                                          *)
(***************************************************************************)
\* decode has been called; `last` describes the latest call
HasCall == last.decoded # "NoCall"

\* the header block at the head of a buffer, as the parser finds it
HeaderBlock(b) == httparse_parse(b)

HeaderComplete(b) == HeaderBlock(b).st = "Complete"

\* the Content-Length header of a complete header block
ContentLength(b) == header_get(build_request(b, HeaderBlock(b)).headers, CONTENT_LENGTH)

IsNumber(bytes) == bytes # <<>> /\ \A i \in 1..Len(bytes) : bytes[i] \in DigitChars

\* the header block declares a body of N bytes
Declares(b) == ContentLength(b).present /\ IsNumber(ContentLength(b).value)

DeclaredLength(b) == parse_usize(ContentLength(b).value)

\* the bytes buffered after the header block
AfterHeader(b) == SubSeq(b, HeaderBlock(b).amt + 1, Len(b))

DeclaredBody(b) == SubSeq(AfterHeader(b), 1, DeclaredLength(b))

\* the request line: the bytes before the first line end
HasLine(b) == \E i \in 1..Len(b) : b[i] = "LF"

FirstLF(b) == CHOOSE i \in 1..Len(b) : b[i] = "LF" /\ \A j \in 1..(i - 1) : b[j] # "LF"

RequestLine(b) ==
  IF ~HasLine(b) THEN <<>>
  ELSE IF FirstLF(b) > 1 /\ b[FirstLF(b) - 1] = "CR"
  THEN SubSeq(b, 1, FirstLF(b) - 2)
  ELSE SubSeq(b, 1, FirstLF(b) - 1)

\* the version the request line declares: what follows its last space
RequestLineVersion(b) ==
  LET line == RequestLine(b)
      spaces == {i \in 1..Len(line) : line[i] = "SP"}
  IN  IF spaces = {} THEN <<>>
      ELSE SubSeq(line, (CHOOSE i \in spaces : \A j \in spaces : j <= i) + 1, Len(line))

DeclaresOtherVersion(b) ==
  /\ HasLine(b)
  /\ RequestLineVersion(b) # <<>>
  /\ RequestLineVersion(b) # HTTP_1_1

\* the empty line that ends a header block is in the buffer
HeaderBlockBuffered(b) ==
  \E i \in 1..Len(b) :
    /\ b[i] = "LF"
    /\ \/ i + 1 <= Len(b) /\ b[i + 1] = "LF"
       \/ i + 2 <= Len(b) /\ b[i + 1] = "CR" /\ b[i + 2] = "LF"

ShortBody(b) ==
  /\ HeaderComplete(b)
  /\ Declares(b)
  /\ DeclaredLength(b) > Len(AfterHeader(b))

\* C4: a call of decode on a complete header block whose Content-Length
\* exceeds the body bytes buffered returns no value and no error; once the
\* rest of the body is in the buffer the next call returns the request, and
\* the two calls together take header length + body length off the buffer.
C4_ShortBodyThenRequest ==
  codec = "proto" =>
    /\ (HasCall /\ ShortBody(last.before) /\ RequestLineVersion(last.before) = HTTP_1_1)
         => last.decoded = "None"
    /\ (HasCall /\ last.pending.active
          /\ last.start = last.pending.start + last.pending.amt
          /\ Len(last.before) >= last.pending.need) =>
         /\ last.decoded = "Some"
         /\ last.req.body = SubSeq(last.before, 1, last.pending.need)
         /\ Len(last.before) - Len(last.after) = last.pending.need

\* C5: when the buffer holds a proper prefix of a header block (the parser
\* reports it incomplete) decode returns no value, no error, and leaves the
\* buffer as it was.
C5_PartialHeaderKeepsBuffer ==
  (HasCall /\ HeaderBlock(last.before).st = "Partial")
    => (last.decoded = "None" /\ last.after = last.before)

C5_Witness ==
  /\ codec = "proto"
  /\ HasCall
  /\ HeaderBlock(last.before).st = "Partial"
  /\ Len(last.before) > 20
  /\ ~last.pending.active
  /\ last.decoded = "None"
  /\ src = last.before

\* C6 as stated: a complete request line that declares a version other than
\* HTTP/1.1 makes decode return a fatal error, never a request or no value,
\* and the error ends the processing loop.
C6_OtherVersionLineIsFatal ==
  (HasCall /\ DeclaresOtherVersion(last.before))
    => (last.decoded = "Err" /\ pc = "failed")

\* C6: a request whose whole header block is buffered and whose request line
\* declares a version other than HTTP/1.1 makes decode return a fatal error,
\* never a request or no value, and the error ends the processing loop:
\* nothing more is read, decoded or answered on the connection.
C6_OtherVersionIsFatal ==
  (HasCall /\ DeclaresOtherVersion(last.before) /\ HeaderBlockBuffered(last.before))
    => /\ last.decoded = "Err"
       /\ last.res = "Err"
       /\ pc = "failed"
       /\ ~ENABLED Next

C6_Witness ==
  /\ HasCall
  /\ RequestLineVersion(last.before) = HTTP_1_0
  /\ HeaderComplete(last.before)
  /\ HeaderBlockBuffered(last.before)
  /\ last.decoded = "Err"
  /\ pc = "failed"
  /\ responses = <<>>

FullBodyBuffered(b) ==
  /\ HeaderComplete(b)
  /\ Declares(b)
  /\ DeclaredLength(b) <= Len(AfterHeader(b))

\* C7: when the header block and the whole declared body are buffered and
\* the body is not UTF-8, decode returns a fatal error and no request.
C7_InvalidBodyIsFatal ==
  (HasCall /\ FullBodyBuffered(last.before) /\ HasInvalidByte(DeclaredBody(last.before)))
    => /\ last.decoded = "Err"
       /\ last.res = "Err"
       /\ last.req = NoRequest
       /\ pc = "failed"

C7_Witness ==
  /\ codec = "proto"
  /\ HasCall
  /\ FullBodyBuffered(last.before)
  /\ HeaderBlock(last.before).version = 1
  /\ DeclaredBody(last.before) = <<"a", "xFF">>
  /\ last.decoded = "Err"

\* what the buffer holds after n bytes have been taken off a buffer b
Without(b, n) == SubSeq(b, n + 1, Len(b))

\* the result C8 describes: the request with the declared body, and the
\* header block and the body taken off the buffer
BodyTaken ==
  /\ last.decoded = "Some"
  /\ last.req.body = DeclaredBody(last.before)
  /\ last.after = Without(last.before, HeaderBlock(last.before).amt + DeclaredLength(last.before))
  /\ last.amt = HeaderBlock(last.before).amt

NoBodyTaken ==
  /\ last.decoded = "Some"
  /\ last.req.body = <<>>
  /\ last.after = Without(last.before, HeaderBlock(last.before).amt)

\* C8 as stated: with a complete header block whose Content-Length N is not
\* more than the bytes buffered after it, decode returns a request whose body
\* is the next N bytes and takes header length + N bytes off the buffer; with
\* no Content-Length the body is empty and the header block is taken off.
C8_BodyIsNextBytes ==
  /\ (HasCall /\ FullBodyBuffered(last.before)) => BodyTaken
  /\ (HasCall /\ HeaderComplete(last.before) /\ ~ContentLength(last.before).present)
       => NoBodyTaken

\* C8: the same, for a request line that declares HTTP/1.1 and a body that
\* is UTF-8.
C8_Utf8BodyIsNextBytes ==
  /\ (HasCall /\ FullBodyBuffered(last.before)
        /\ RequestLineVersion(last.before) = HTTP_1_1
        /\ ~HasInvalidByte(DeclaredBody(last.before))) => BodyTaken
  /\ (HasCall /\ HeaderComplete(last.before) /\ ~ContentLength(last.before).present
        /\ RequestLineVersion(last.before) = HTTP_1_1) => NoBodyTaken

C8_Witness ==
  /\ codec = "proto"
  /\ HasCall
  /\ FullBodyBuffered(last.before)
  /\ DeclaredLength(last.before) = 2
  /\ last.decoded = "Some"
  /\ last.req.body = <<"[", "]">>
  /\ Len(last.after) > 0
  /\ Len(last.before) - Len(last.after) = HeaderBlock(last.before).amt + 2

\* the latest request has been answered: `request` is what the last response
\* answers whenever no request waits for its response
Answered == Len(responses) > 0 /\ pc # "respond"

LastResponse == responses[Len(responses)]

\* an Error result with server = false, serialized
ClientErrorJson ==
  "{\"status\":\"error\",\"description\":\"deserialize error\",\"server\":false}"

\* C13: a POST /api request whose body does not deserialize is answered with
\* an Error result that has server = false and describes the problem, and no
\* executor and no command is run for it.
C13_BadBodyIsClientError ==
  (Answered /\ request.method = POST /\ request.uri = Api /\ request.body # <<"[", "]">>)
    => /\ LastResponse.body = ClientErrorJson
       /\ executor = "none"
       /\ spawned = <<>>

(***************************************************************************)
(* Properties of the server (SpecServer)                                   *)
(***************************************************************************)
Live == {i \in ConnIds : conns[i].pc # "unaccepted"}

\* the requests of a connection that wait for their response
Outstanding(i) == Len(conns[i].requests) - Len(conns[i].responses)

\* C14: on one connection requests are handled one at a time and in the
\* order of arrival: a request is decoded only when every earlier request of
\* the connection has its response, the k-th response answers the k-th
\* request, and the requests were decoded in the order of their places in the
\* stream; connections are not ordered among themselves.
C14_OneRequestAtATime ==
  \A i \in Live :
    /\ Outstanding(i) \in {0, 1}
    /\ conns[i].pc = "respond" => Outstanding(i) = 1
    /\ conns[i].pc = "next" => Outstanding(i) = 0
    /\ \A k \in 1..Len(conns[i].responses) :
         conns[i].responses[k] = respond(conns[i].requests[k].req)
    /\ \A k \in 1..(Len(conns[i].requests) - 1) :
         conns[i].requests[k].at < conns[i].requests[k + 1].at

\* the second connection has been answered while the request of the first,
\* which came earlier, still waits; the first connection had two requests
C14_Witness ==
  /\ conns[1].pc = "respond"
  /\ Len(conns[1].requests) = 2
  /\ Len(conns[1].responses) = 1
  /\ Len(conns[2].responses) = 1
  /\ conns[2].pc = "next"

\* a step in which the task of connection i ends with an error
Fails(i) == conns[i].pc # "failed" /\ conns'[i].pc = "failed"

\* what connection i can do next does not wait for any other connection
CanGoOn(i) ==
  /\ conns[i].pc = "respond" => ENABLED ServerRespond(i)
  /\ (conns[i].pc = "next" /\ conns[i].is_readable) => ENABLED ServerPoll(i)
  /\ (conns[i].pc = "next" /\ ~conns[i].is_readable /\ ~conns[i].eof
        /\ conns[i].wire # <<>>) => ENABLED ServerRead(i)

OthersGoOn ==
  /\ \A i \in ConnIds : CanGoOn(i)
  /\ (listener.listening /\ listener.accepted < MaxConns) => ENABLED Accept

\* C15: a fatal codec error or a socket error on one connection ends the
\* task of that connection only: the step changes no other connection and
\* not the accept loop, which goes on accepting, and every other task can
\* still read, decode and respond.
C15_FailureIsLocal ==
  /\ []OthersGoOn
  /\ [][\A i \in ConnIds :
          Fails(i) => /\ listener' = listener
                      /\ \A j \in ConnIds \ {i} : conns'[j] = conns[j]]_vars

\* one connection has failed; after that another one was accepted, decoded a
\* request and sent its response
C15_Witness ==
  /\ conns[1].pc = "failed"
  /\ conns[1].requests = <<>>
  /\ listener.listening
  /\ Len(conns[2].responses) = 1
  /\ conns[2].pc = "next"


(***************************************************************************)
(* Properties of the encoder, of the sink of one connection (SpecEncode)   *)
(***************************************************************************)
\* the decimal numerals of at most two digits, without a leading zero
Numerals ==
  {<<a>> : a \in DigitChars} \cup {<<a, b>> : a \in DigitChars \ {"0"}, b \in DigitChars}

\* the numeral that reads as n
Numeral(n) == CHOOSE d \in Numerals : parse_usize(d) = n

StatusText(status) ==
  CASE status = 200 -> <<"2", "0", "0", "SP", "O", "K">>
    [] status = 400 -> <<"4", "0", "0", "SP", "B", "a", "d", "SP", "R", "e", "q", "u", "e", "s",
  "t">>
    [] status = 404 -> <<"4", "0", "4", "SP", "N", "o", "t", "SP", "F", "o", "u", "n", "d">>

\* the lines of the header block that every response carries, in order
CommonLines(status, length, date) ==
  <<<<"H", "T", "T", "P", "/", "1", ".", "1", "SP">> \o StatusText(status),
    <<"S", "e", "r", "v", "e", "r", ":", "SP", "w", "e", "o">>,
    <<"C", "o", "n", "t", "e", "n", "t", "-", "L", "e", "n", "g", "t", "h",
    ":", "SP">> \o Numeral(length),
    <<"A", "c", "c", "e", "p", "t", "-", "R", "a", "n", "g", "e", "s", ":",
    "SP", "b", "y", "t", "e", "s">>,
    <<"A", "c", "c", "e", "s", "s", "-", "C", "o", "n", "t", "r", "o", "l",
    "-", "A", "l", "l", "o", "w", "-", "O", "r", "i", "g", "i", "n", ":",
    "SP", "*">>,
    <<"A", "c", "c", "e", "s", "s", "-", "C", "o", "n", "t", "r", "o", "l",
    "-", "A", "l", "l", "o", "w", "-", "H", "e", "a", "d", "e", "r", "s", ":",
    "SP", "*">>,
    <<"A", "c", "c", "e", "s", "s", "-", "C", "o", "n", "t", "r", "o", "l",
    "-", "A", "l", "l", "o", "w", "-", "M", "e", "t", "h", "o", "d", "s", ":",
    "SP", "*">>,
    <<"C", "o", "n", "n", "e", "c", "t", "i", "o", "n", ":", "SP", "k", "e",
    "e", "p", "-", "a", "l", "i", "v", "e">>,
    <<"D", "a", "t", "e", ":", "SP">> \o date>>

OwnLines(headers) ==
  [i \in 1..Len(headers) |-> headers[i].name \o <<":", "SP">> \o headers[i].value]

\* the lines, each ended by CR LF
RECURSIVE Ended(_)
Ended(ls) == IF ls = <<>> THEN <<>> ELSE Head(ls) \o <<"CR", "LF">> \o Ended(Tail(ls))

\* the header block with the blank line that ends it
HeaderBlockOf(status, length, date, headers) ==
  Ended(CommonLines(status, length, date) \o OwnLines(headers) \o << <<>> >>)

\* what the latest call of encode appended to the write buffer
Appended == SubSeq(sent.after, Len(sent.before) + 1, Len(sent.after))

Encoded(kind) == codec = "proto" /\ sent.encoded /\ sent.item.kind = kind

DateWritten == buffer(sent.cache_after)

\* C16: encoding a Complete frame appends, in this order, the status line,
\* Server, Content-Length, Accept-Ranges: bytes, the three
\* Access-Control-Allow-* headers with the value *, Connection: keep-alive,
\* Date, the response's own headers, a blank line and the body, and leaves
\* what the buffer held before it; Content-Length is the number of bytes of
\* the body.
C16_CompleteFrame ==
  Encoded("Complete") =>
    /\ SubSeq(sent.after, 1, Len(sent.before)) = sent.before
    /\ Appended = HeaderBlockOf(sent.item.response.status, Len(sent.item.response.body),
                                DateWritten, sent.item.response.headers)
                    \o sent.item.response.body

\* a response with a body and two headers of its own was encoded
C16_Witness ==
  /\ Encoded("Complete")
  /\ Len(sent.item.response.body) > 9
  /\ Len(sent.item.response.headers) = 2
  /\ sent.cache_after.amt > 0

\* C17: encoding a header-only frame appends the same header block, whose
\* Content-Length is the total size the frame supplies, and no body;
\* encoding a content chunk appends exactly the bytes of the chunk.
C17_HeaderOnlyAndChunk ==
  /\ Encoded("FileHeader") =>
       /\ SubSeq(sent.after, 1, Len(sent.before)) = sent.before
       /\ Appended = HeaderBlockOf(sent.item.response.status, sent.item.file_size,
                                   DateWritten, sent.item.response.headers)
  /\ Encoded("FileContent") =>
       /\ SubSeq(sent.after, 1, Len(sent.before)) = sent.before
       /\ Appended = sent.item.bytes

\* a chunk was appended to a buffer that holds the header-only frame of its
\* response, which announces the size of the file
C17_Witness ==
  /\ Encoded("FileContent")
  /\ sent.item.bytes # <<>>
  /\ sender.announced = MaxFileSize
  /\ sent.before = HeaderBlockOf(200, MaxFileSize, buffer(sent.cache_before), <<>>)

WroteDate == sent.encoded /\ sent.item.kind \in {"Complete", "FileHeader"}

HasRender(c) == c.amt > 0

\* the second the cached text shows: its two digits after the minutes
RenderedSecond(c) == 10 * DigitVal(buffer(c)[24]) + DigitVal(buffer(c)[25])

\* C19: the cached date is rendered again only when the second of the wall
\* clock has advanced past the second of the cached render; an encode in
\* the second of the cached render writes the cached bytes and renders
\* nothing.
C19_DateCache ==
  (WroteDate /\ HasRender(sent.cache_before)) =>
    /\ sent.cache_after.rendered =>
         Second(sent.now) > RenderedSecond(sent.cache_before)
    /\ Second(sent.now) = RenderedSecond(sent.cache_before) =>
         /\ ~sent.cache_after.rendered
         /\ DateWritten = buffer(sent.cache_before)
         /\ sent.cache_after.next_update = sent.cache_before.next_update

\* a date was written from the cache in the second of its render, at a later
\* instant than the render
C19_Witness ==
  /\ WroteDate
  /\ HasRender(sent.cache_before)
  /\ Second(sent.now) = RenderedSecond(sent.cache_before)
  /\ sent.now % TicksPerSecond # 0
  /\ ~sent.cache_after.rendered

(***************************************************************************)
(* Properties of the status parsers, of the runs of the executor (SpecExec) *)
(***************************************************************************)
\* tc printed the fixture status line of test_regex
PrintedFixture == executor = "NetEm" /\ outcome.kind = "exited" /\ outcome.stdout = StatusLine

\* C20: from the fixture status line every parser reads its fields: limit
\* 1000; delay 10.0 with jitter 2.0 and correlation 50; loss 0.1 with
\* correlation 11 and ecn; duplicate 0.1 with correlation 12; reorder 10
\* with correlation 55 and gap distance 5; corrupt 0.3 with correlation 30;
\* rate 10000000 (10Mbit).
C20_FixtureLineParses ==
  PrintedFixture =>
    /\ Limit_from_str(outcome.stdout) = Some([packets |-> 1000])
    /\ Delay_from_str(outcome.stdout)
         = Some([time |-> Dec(10, 0), jitter |-> Some(Dec(2, 0)),
                 correlation |-> Some(Dec(50, 0)), distribution |-> None])
    /\ Loss_from_str(outcome.stdout)
         = Some([percent |-> Dec(1, 1), correlation |-> Some(Dec(11, 0)), ecn |-> TRUE])
    /\ Duplicate_from_str(outcome.stdout)
         = Some([percent |-> Dec(1, 1), correlation |-> Some(Dec(12, 0))])
    /\ Reorder_from_str(outcome.stdout)
         = Some([percent |-> Dec(10, 0), correlation |-> Some(Dec(55, 0)),
                 distance |-> Some(5)])
    /\ Corrupt_from_str(outcome.stdout)
         = Some([percent |-> Dec(3, 1), correlation |-> Some(Dec(30, 0))])
    /\ Rate_from_str(outcome.stdout)
         = Some([rate |-> <<"1", "0", "0", "0", "0", "0", "0", "0">>])
    /\ (op.type = "show" /\ outcome.code = 0) =>
         \A f \in {"limit", "delay", "loss", "duplicate", "reorder", "corrupt", "rate"} :
           is_some(output.controls[f])

\* a Show read the fixture line: all seven fields are there, with the gap
\* and the rate in bits
C20_Witness ==
  /\ PrintedFixture
  /\ op.type = "show"
  /\ outcome.code = 0
  /\ output.controls.reorder[1].distance = <<5>>
  /\ Len(output.controls.rate[1].rate) = 8
  /\ output.controls.loss[1].ecn

\* a List whose command exited with code 0 and printed text
Listed == ExitedWithText /\ op.type = "list"

\* the names of the lines of a listing that attach netem, or another shaping
\* discipline that is neither noqueue nor fq_codel, to the root of an interface
ShapedIn(text) ==
  CASE text = Listing -> <<"br-lan">>
    [] text = ShowLine -> <<"br-lan">>
    [] text = ClassListing -> <<"br-lan">>
    [] OTHER -> <<>>

\* the names of the lines "qdisc ... : dev <name> root" of a listing,
\* whatever their discipline
RootsIn(text) ==
  CASE text = Listing -> <<"lo", "br-lan", "eth0">>
    [] text = ShowLine -> <<"br-lan">>
    [] text = TestListing -> <<"lo", "eth0", "br-lan", "eth0.1", "eth0.2", "wlan0", "wlan1">>
    [] text = ClassListing -> <<"br-lan">>
    [] text = StatusLine -> <<>>
    [] text = <<>> -> <<>>

RECURSIVE Holds(_, _)
Holds(text, piece) ==
  /\ Len(text) >= Len(piece)
  /\ \/ SubSeq(text, 1, Len(piece)) = piece
     \/ Holds(Tail(text), piece)

\* tc printed a line of netem that a Show read
ShownLine ==
  /\ executor = "NetEm"
  /\ op.type = "show"
  /\ outcome.kind = "exited"
  /\ outcome.code = 0
  /\ SubSeq(outcome.stdout, 1, Len(NetemRoot)) = NetemRoot

\* C22: a status line that begins with "qdisc netem" never parses to an
\* error, and each of the seven fields is present exactly when the line
\* holds its keyword with a number that parses, whatever the line says of
\* the other fields.
C22_FieldsParseIndependently ==
  (ShownLine /\ outcome.stdout \in StatusLines) =>
    /\ output.status = "controls"
    /\ is_some(output.controls.limit) <=> Holds(outcome.stdout, GoodLimit)
    /\ is_some(output.controls.delay) <=> Holds(outcome.stdout, GoodDelay)
    /\ is_some(output.controls.loss) <=> Holds(outcome.stdout, GoodLoss)
    /\ is_some(output.controls.duplicate) <=> Holds(outcome.stdout, GoodDuplicate)
    /\ is_some(output.controls.reorder) <=> Holds(outcome.stdout, GoodReorder)
    /\ is_some(output.controls.corrupt) <=> Holds(outcome.stdout, GoodCorrupt)
    /\ is_some(output.controls.rate) <=> Holds(outcome.stdout, GoodRate)

\* a line whose limit and loss do not parse and whose delay and rate do
C22_Witness ==
  /\ ShownLine
  /\ Holds(outcome.stdout, BadLimit)
  /\ Holds(outcome.stdout, BadLoss)
  /\ Holds(outcome.stdout, GoodDelay)
  /\ Holds(outcome.stdout, GoodRate)
  /\ output.status = "controls"
  /\ output.controls.limit = None
  /\ is_some(output.controls.delay)
  /\ is_some(output.controls.rate)

(***************************************************************************)
(* Properties of the dispatch of requests (Spec)                           *)
(***************************************************************************)
IsApiCall(req) == req.method = POST /\ req.uri = Api

\* C23: a request that is not POST /api, and is not a GET of a file that
\* exists (the server has no files), is answered with status 404, an empty
\* body and no content-type header.
C23_OtherRequestsAreNotFound ==
  (Answered /\ ~IsApiCall(request)) =>
    /\ LastResponse.status = 404
    /\ LastResponse.body = ""
    /\ ~LastResponse.content_type

\* the serialized Results of the API calls that are made: Ok for the calls
\* that deserialize, a client Error for the others
ResultJsons == {"{\"status\":\"ok\"}", ClientErrorJson}

\* C24: every decoded POST /api request is answered with status 200 and a
\* body that is the serialized Result, Ok or Error; a failure of the call
\* is never told by the status code.
C24_ApiAnswerIsResultWith200 ==
  (Answered /\ IsApiCall(request)) =>
    /\ LastResponse.status = 200
    /\ LastResponse.body \in ResultJsons

(***************************************************************************)
(* Properties of the delay group (SpecExec)                                *)
(***************************************************************************)
\* the duration tokens and the percentage tokens the operations can give
Durations == {"10ms", "2ms", "12ms", "10.5ms", "2.5ms"}

Percents == {"50%"}

\* a command was started to set controls, by either executor
SetStarted == op.type \in {"set", "control"} /\ spawned # <<>>

\* C25: the delay group is delay T, delay T J or delay T J C, then
\* optionally distribution D: a correlation is there only after a jitter;
\* and a Delay read from status text has no correlation when it has no
\* jitter.
C25_CorrelationOnlyWithJitter ==
  /\ SetStarted =>
       \A i \in Places("delay") :
         /\ i + 1 <= Len(ControlTokens)
         /\ ControlTokens[i + 1] \in Durations
         /\ i + 2 <= Len(ControlTokens) => ControlTokens[i + 2] \notin Percents
         /\ (i + 3 <= Len(ControlTokens) /\ ControlTokens[i + 3] \in Percents)
              => ControlTokens[i + 2] \in Durations
  /\ (executor = "NetEm" /\ output.status = "controls" /\ is_some(output.controls.delay)) =>
       (output.controls.delay[1].jitter = None => output.controls.delay[1].correlation = None)

(***************************************************************************)
(* Properties of what decode takes off the buffer (Spec)                   *)
(***************************************************************************)
\* C26: when decode returns no value because the declared body has not
\* fully arrived, the buffer is left as it was, the header block included.
C26_ShortBodyKeepsBuffer ==
  (HasCall /\ last.decoded = "None" /\ ShortBody(last.before))
    => last.after = last.before

(***************************************************************************)
(* Properties of the date that is written (SpecEncode)                     *)
(***************************************************************************)
\* C27: the Date written by encode shows the second of the call: the cache
\* never serves a text rendered in an earlier second once the clock is in
\* a later one (the text shows a later second only when the wall clock was
\* set back after the render).
C27_DateIsOfThisSecond ==
  WroteDate => RenderedSecond(sent.cache_after) >= Second(sent.now)

(***************************************************************************)
(* Properties of the rate that is read (SpecStatus)                        *)
(***************************************************************************)
\* n times the multiplier of the unit u, or 2^64 - 1 if the product is larger
RateOf(n, u) ==
  CASE n = "0" /\ u = "bit" -> "0"
    [] n = "0" /\ u = "Kbit" -> "0"
    [] n = "0" /\ u = "Mbit" -> "0"
    [] n = "0" /\ u = "Gbit" -> "0"
    [] n = "0" /\ u = "Tbit" -> "0"
    [] n = "1" /\ u = "bit" -> "1"
    [] n = "1" /\ u = "Kbit" -> "1000"
    [] n = "1" /\ u = "Mbit" -> "1000000"
    [] n = "1" /\ u = "Gbit" -> "1000000000"
    [] n = "1" /\ u = "Tbit" -> "1000000000000"
    [] n = "10" /\ u = "bit" -> "10"
    [] n = "10" /\ u = "Kbit" -> "10000"
    [] n = "10" /\ u = "Mbit" -> "10000000"
    [] n = "10" /\ u = "Gbit" -> "10000000000"
    [] n = "10" /\ u = "Tbit" -> "10000000000000"
    [] n = "007" /\ u = "bit" -> "7"
    [] n = "007" /\ u = "Kbit" -> "7000"
    [] n = "007" /\ u = "Mbit" -> "7000000"
    [] n = "007" /\ u = "Gbit" -> "7000000000"
    [] n = "007" /\ u = "Tbit" -> "7000000000000"
    [] n = "18446744" /\ u = "bit" -> "18446744"
    [] n = "18446744" /\ u = "Kbit" -> "18446744000"
    [] n = "18446744" /\ u = "Mbit" -> "18446744000000"
    [] n = "18446744" /\ u = "Gbit" -> "18446744000000000"
    [] n = "18446744" /\ u = "Tbit" -> "18446744000000000000"
    [] n = "18446745" /\ u = "bit" -> "18446745"
    [] n = "18446745" /\ u = "Kbit" -> "18446745000"
    [] n = "18446745" /\ u = "Mbit" -> "18446745000000"
    [] n = "18446745" /\ u = "Gbit" -> "18446745000000000"
    [] n = "18446745" /\ u = "Tbit" -> "18446744073709551615"
    [] n = "18446744073709551" /\ u = "bit" -> "18446744073709551"
    [] n = "18446744073709551" /\ u = "Kbit" -> "18446744073709551000"
    [] n = "18446744073709551" /\ u = "Mbit" -> "18446744073709551615"
    [] n = "18446744073709551" /\ u = "Gbit" -> "18446744073709551615"
    [] n = "18446744073709551" /\ u = "Tbit" -> "18446744073709551615"
    [] n = "18446744073709552" /\ u = "bit" -> "18446744073709552"
    [] n = "18446744073709552" /\ u = "Kbit" -> "18446744073709551615"
    [] n = "18446744073709552" /\ u = "Mbit" -> "18446744073709551615"
    [] n = "18446744073709552" /\ u = "Gbit" -> "18446744073709551615"
    [] n = "18446744073709552" /\ u = "Tbit" -> "18446744073709551615"
    [] n = "18446744073709551615" /\ u = "bit" -> "18446744073709551615"
    [] n = "18446744073709551615" /\ u = "Kbit" -> "18446744073709551615"
    [] n = "18446744073709551615" /\ u = "Mbit" -> "18446744073709551615"
    [] n = "18446744073709551615" /\ u = "Gbit" -> "18446744073709551615"
    [] n = "18446744073709551615" /\ u = "Tbit" -> "18446744073709551615"
    [] n = "18446744073709551616" /\ u = "bit" -> "18446744073709551615"
    [] n = "18446744073709551616" /\ u = "Kbit" -> "18446744073709551615"
    [] n = "18446744073709551616" /\ u = "Mbit" -> "18446744073709551615"
    [] n = "18446744073709551616" /\ u = "Gbit" -> "18446744073709551615"
    [] n = "18446744073709551616" /\ u = "Tbit" -> "18446744073709551615"

\* C28: the rate read from "rate <n><unit>" is n times the multiplier of the
\* unit (1, 10^3, 10^6, 10^9, 10^12 for bit, Kbit, Mbit, Gbit, Tbit) when
\* the product fits in 64 bits, and 2^64 - 1 when it does not.
C28_RateSaturates ==
  \A n \in RateNumbers, u \in RateUnits :
    (ShownLine /\ outcome.stdout = RateLine(n, u) /\ is_some(output.controls.rate)) =>
      Str(output.controls.rate[1].rate) = RateOf(Str(n), Str(u))

\* a rate whose product with the multiplier of Kbit does not fit was read
C28_Witness ==
  /\ ShownLine
  /\ outcome.stdout
       = RateLine(<<"1", "8", "4", "4", "6", "7", "4", "4", "0", "7", "3", "7", "0", "9",
                  "5", "5", "2">>,
                  <<"K", "b", "i", "t">>)
  /\ is_some(output.controls.rate)
  /\ output.controls.rate[1].rate = U64_MAX

(***************************************************************************)
(* Properties of the bytes a decoded request takes (Spec)                  *)
(***************************************************************************)
\* the length of the request at the head of a buffer: its header block and
\* the body it declares
FirstRequestLength(b) ==
  HeaderBlock(b).amt + (IF Declares(b) THEN DeclaredLength(b) ELSE 0)

\* the request at the head of a buffer
FirstRequest(b) ==
  [build_request(SubSeq(b, 1, HeaderBlock(b).amt), HeaderBlock(b))
     EXCEPT !.body = IF Declares(b) THEN DeclaredBody(b) ELSE <<>>]

StartsWith(b, head) == Len(head) <= Len(b) /\ SubSeq(b, 1, Len(head)) = head

\* a call that returned a request took the bytes of the first request, and
\* only those, off the buffer
FirstRequestTaken ==
  (HasCall /\ last.decoded = "Some") =>
    /\ HeaderComplete(last.before)
    /\ FirstRequestLength(last.before) <= Len(last.before)
    /\ last.req = FirstRequest(last.before)
    /\ last.after = Without(last.before, FirstRequestLength(last.before))
    /\ last.before = SubSeq(stream, last.start + 1, last.start + Len(last.before))

\* the call after one that returned a request finds what that call left,
\* followed by what has been read since, at the place in the stream where
\* the request ended
NextCallContinues ==
  (HasCall /\ last.decoded = "Some" /\ last' # last) =>
    /\ StartsWith(last'.before, last.after)
    /\ last'.start = last.start + FirstRequestLength(last.before)

\* C29: a successful decode takes only the bytes of the first request (its
\* header block and declared body) off the front of the buffer; the bytes
\* after it stay, unchanged and in order, so that repeated calls return
\* back-to-back requests one by one, in order, each byte once.
C29_OnlyFirstRequestTaken == []FirstRequestTaken /\ [][NextCallContinues]_vars

\* the second of two requests that reached the buffer together was returned
\* by the call after the one that returned the first
C29_Witness ==
  /\ HasCall
  /\ last.decoded = "Some"
  /\ last.start = Len(RequestBytes(GET, Root, HTTP_1_1, <<>>, <<>>))
  /\ last.before = RequestBytes(POST, Api, HTTP_1_1, ContentLengthHeader(2), <<"[", "]">>)
  /\ last.req.method = POST
  /\ last.req.body = <<"[", "]">>
  /\ last.after = <<>>

=========================================================================
